---- MODULE Spec2Model ----
(***************************************************************************)
(* Model of the HB-Staffing allocation, rate and forecast engine           *)
(* (backend/models.py, backend/engine.py, backend/routes.py).              *)
(*                                                                         *)
(* Dates are day numbers counted from 2024-01-01 (day 0, a Monday).        *)
(* Floating point quantities (percentages, hours, costs) are exact         *)
(* rationals <<numerator, denominator>> in lowest terms.                   *)
(***************************************************************************)
EXTENDS Integers, Sequences, FiniteSets, TLC

VARIABLES roles, staff, projects, role_rates, assignments, monthly_allocations,
          templates, planning_exercises, planning_projects, planning_roles, ghost_staff, lastCall

vars == <<roles, staff, projects, role_rates, assignments, monthly_allocations,
          templates, planning_exercises, planning_projects, planning_roles, ghost_staff, lastCall>>

\* Python None for nullable ids, dates and rates.
None == -1

(***************************************************************************)
(* Bounds of the model.                                                    *)
(***************************************************************************)
MaxAssignments == 2

MaxProjects == 3
\* The most role rows and staff rows a run creates.
MaxRoles == 2
MaxStaff == 2
\* The most planning projects and planning roles a run creates.
MaxPlanningProjects == 2
MaxPlanningRoles == 2

(***************************************************************************)
(* Exact rational arithmetic standing for Python floats.                   *)
(***************************************************************************)
RECURSIVE GCD(_, _)
GCD(a, b) == IF b = 0 THEN a ELSE GCD(b, a % b)

Abs(x) == IF x < 0 THEN -x ELSE x

Norm(n, d) ==
    LET g == GCD(Abs(n), d)
    IN  IF n = 0 THEN <<0, 1>> ELSE <<n \div g, d \div g>>

R(x) == <<x, 1>>

RAdd(a, b) ==
    LET g == GCD(a[2], b[2])
    IN  Norm(a[1] * (b[2] \div g) + b[1] * (a[2] \div g), (a[2] \div g) * b[2])

RSub(a, b) == RAdd(a, <<-b[1], b[2]>>)

RMul(a, b) ==
    LET x == Norm(a[1], b[2])
        y == Norm(b[1], a[2])
    IN  Norm(x[1] * y[1], x[2] * y[2])

RDiv(a, k) == RMul(a, <<1, k>>)

RGt(a, b) == a[1] * b[2] > b[1] * a[2]

RMax(a, b) == IF RGt(b, a) THEN b ELSE a

\* Sum of a finite family f of rationals (a function from some index set).
RECURSIVE RSum(_)
RSum(f) ==
    IF DOMAIN f = {} THEN R(0)
    ELSE LET x == CHOOSE y \in DOMAIN f : TRUE
         IN  RAdd(f[x], RSum([y \in DOMAIN f \ {x} |-> f[y]]))

\* round(x, 1) for x >= 0: nearest tenth, an exact tie going to the even tenth.
Round1(x) ==
    LET t10 == x[1] * 10
        q   == t10 \div x[2]
        r2  == 2 * (t10 % x[2])
        up  == r2 > x[2] \/ (r2 = x[2] /\ q % 2 = 1)
    IN  Norm(IF up THEN q + 1 ELSE q, 10)

(***************************************************************************)
(* Calendar of 2024: date(y, m, 1), relativedelta(months=1), weekday().    *)
(***************************************************************************)
MonthLengths == <<31, 29, 31, 30, 31, 30, 31, 31, 30, 31, 30, 31>>

RECURSIVE MonthStart(_)
MonthStart(m) == IF m = 1 THEN 0 ELSE MonthStart(m - 1) + MonthLengths[m - 1]

MonthEnd(m) == MonthStart(m) + MonthLengths[m] - 1

MonthOf(d) == CHOOSE m \in 1..12 : MonthStart(m) <= d /\ d <= MonthEnd(m)

weekday(d) == d % 7

Min(a, b) == IF a < b THEN a ELSE b
Max(a, b) == IF a > b THEN a ELSE b

(***************************************************************************)
(* engine.calculate_date_range_overlap                                     *)
(***************************************************************************)
calculate_date_range_overlap(start1, end1, start2, end2) ==
    IF None \in {start1, end1, start2, end2} THEN 0
    ELSE LET overlap_start == Max(start1, start2)
             overlap_end   == Min(end1, end2)
         IN  IF overlap_start <= overlap_end
             THEN overlap_end - overlap_start + 1
             ELSE 0

(***************************************************************************)
(* models.Assignment                                                       *)
(***************************************************************************)
ALLOCATION_FULL == "full"
ALLOCATION_SPLIT_BY_PROJECTS == "split_by_projects"
ALLOCATION_PERCENTAGE_TOTAL == "percentage_total"
ALLOCATION_PERCENTAGE_MONTHLY == "percentage_monthly"

ALLOCATION_TYPES ==
    {ALLOCATION_FULL, ALLOCATION_SPLIT_BY_PROJECTS,
     ALLOCATION_PERCENTAGE_TOTAL, ALLOCATION_PERCENTAGE_MONTHLY}

\* Assignment.monthly_allocations: the rows owned by assignment a, by row id.
MonthlyRowsOf(a) == {i \in DOMAIN monthly_allocations : monthly_allocations[i].assignment_id = a}

\* (table: the rows of the assignments table that a query reads, the variable
\* assignments at the time of the call.)
\* The staff-wide query of the split_by_projects branch
\* (OverlappingAssignmentsAnyStaff: the same query without its staff filter).
OverlappingAssignmentsAnyStaff(table, staff_id, period_start, period_end) ==
    {b \in DOMAIN table :
        /\ table[b].start_date <= period_end
        /\ table[b].end_date >= period_start}

OverlappingAssignments(table, staff_id, period_start, period_end) ==
    {b \in DOMAIN table :
        /\ table[b].staff_id = staff_id
        /\ table[b].start_date <= period_end
        /\ table[b].end_date >= period_start}

\* The percentage stored for the month of day current_month, 100 by default.
MonthAllocation(a, current_month) ==
    LET rows == {i \in MonthlyRowsOf(a) :
                    MonthOf(monthly_allocations[i].month) = MonthOf(current_month)}
    IN  IF rows = {} THEN R(100)
        ELSE monthly_allocations[CHOOSE i \in rows : \A j \in rows : i <= j].allocation_percentage

\* (MonthlyLoopPerMonth: every month of the period weighs the same, whatever
\* the number of its days inside the period.)
RECURSIVE MonthlyLoopPerMonth(_, _, _, _)
MonthlyLoopPerMonth(a, m, period_start, period_end) ==
    IF m > 12 \/ MonthStart(m) > period_end THEN <<R(0), 0>>
    ELSE LET month_start    == Max(MonthStart(m), period_start)
             month_end      == Min(MonthEnd(m), period_end)
             days_in_period == month_end - month_start + 1
             rest           == MonthlyLoopPerMonth(a, m + 1, period_start, period_end)
         IN  IF days_in_period > 0
             THEN <<RAdd(MonthAllocation(a, MonthStart(m)), rest[1]), 1 + rest[2]>>
             ELSE rest

\* The while loop of the percentage_monthly branch, from month m on:
\* <<weighted_allocation, total_days>> accumulated over the months left.
RECURSIVE MonthlyLoop(_, _, _, _)
MonthlyLoop(a, m, period_start, period_end) ==
    IF m > 12 \/ MonthStart(m) > period_end THEN <<R(0), 0>>
    ELSE LET month_start    == Max(MonthStart(m), period_start)
             month_end      == Min(MonthEnd(m), period_end)
             days_in_period == month_end - month_start + 1
             rest           == MonthlyLoop(a, m + 1, period_start, period_end)
         IN  IF days_in_period > 0
             THEN <<RAdd(RMul(R(days_in_period), MonthAllocation(a, MonthStart(m))), rest[1]),
                    days_in_period + rest[2]>>
             ELSE rest

get_allocation_for_period(table, a, p_start, p_end) ==
    LET self         == table[a]
        period_start == IF p_start = None THEN self.start_date ELSE p_start
        period_end   == IF p_end = None THEN self.end_date ELSE p_end
    IN  CASE self.allocation_type = ALLOCATION_FULL -> R(100)
          [] self.allocation_type = ALLOCATION_PERCENTAGE_TOTAL -> self.allocation_percentage
          [] self.allocation_type = ALLOCATION_SPLIT_BY_PROJECTS ->
                LET n == Cardinality(OverlappingAssignments(table, self.staff_id, period_start, period_end))
                IN  IF n > 0 THEN Norm(100, n) ELSE R(100)
          [] self.allocation_type = ALLOCATION_PERCENTAGE_MONTHLY ->
                IF MonthlyRowsOf(a) = {} THEN R(100)
                ELSE LET acc == MonthlyLoop(a, MonthOf(period_start), period_start, period_end)
                     IN  IF acc[2] > 0 THEN RDiv(acc[1], acc[2]) ELSE R(100)
          [] OTHER -> R(100)

effective_allocation(a) == get_allocation_for_period(assignments, a, None, None)

(***************************************************************************)
(* engine: over-allocation detection and validation                        *)
(***************************************************************************)
\* The months visited by "current_month = date(start.year, start.month, 1);
\* while current_month <= end_date".
MonthsWalked(start_date, end_date) ==
    {m \in 1..12 : m >= MonthOf(start_date) /\ MonthStart(m) <= end_date}

\* The assignments fetched by the first query of get_staff_allocation_timeline.
TimelineAssignments(table, staff_id, start_date, end_date) ==
    {a \in DOMAIN table :
        /\ table[a].staff_id = staff_id
        /\ table[a].start_date <= end_date
        /\ table[a].end_date >= start_date}

\* One month_data entry of the timeline, computed over the fetched assignments.
MonthData(table, fetched, m) ==
    LET current_month == MonthStart(m)
        month_end     == MonthEnd(m)
        hit == {a \in fetched :
                   calculate_date_range_overlap(table[a].start_date, table[a].end_date,
                                                current_month, month_end) > 0}
        total == RSum([a \in hit |-> get_allocation_for_period(table, a, current_month, month_end)])
    IN  [total_allocation     |-> total,
         is_over_allocated    |-> RGt(total, R(100)),
         available_allocation |-> RMax(R(0), RSub(R(100), total)),
         assignments          |-> hit]

get_staff_allocation_timeline(table, staff_id, start_date, end_date) ==
    IF staff_id \notin DOMAIN staff THEN [status |-> "ValueError"]
    ELSE LET fetched == TimelineAssignments(table, staff_id, start_date, end_date)
         IN  [status |-> "ok",
              monthly_allocations |->
                  [m \in MonthsWalked(start_date, end_date) |-> MonthData(table, fetched, m)]]

Severity(amount) ==
    IF RGt(amount, R(50)) THEN "critical"
    ELSE IF RGt(amount, R(25)) THEN "high"
    ELSE "moderate"

\* max() of a non-empty family of rationals.
RECURSIVE RMaxOf(_)
RMaxOf(f) ==
    LET x == CHOOSE y \in DOMAIN f : TRUE
    IN  IF DOMAIN f = {x} THEN f[x]
        ELSE RMax(f[x], RMaxOf([y \in DOMAIN f \ {x} |-> f[y]]))

\* has_conflicts = len(over_allocated_periods) > 0
HasConflictsOffByOne(over) == Cardinality(over) > 1

HasConflicts(over) == Cardinality(over) > 0

detect_over_allocations(table, staff_id, start_date, end_date) ==
    IF staff_id \notin DOMAIN staff THEN [status |-> "ValueError"]
    ELSE LET timeline == get_staff_allocation_timeline(table, staff_id, start_date, end_date).monthly_allocations
             over     == {m \in DOMAIN timeline : timeline[m].is_over_allocated}
             over_allocated_periods ==
                 [m \in over |->
                     LET over_allocation_amount == RSub(timeline[m].total_allocation, R(100))
                     IN  [total_allocation       |-> timeline[m].total_allocation,
                          over_allocation_amount |-> Round1(over_allocation_amount),
                          severity               |-> Severity(over_allocation_amount)]]
             has_conflicts == HasConflicts(over)
         IN  [status |-> "ok",
              has_conflicts |-> has_conflicts,
              overall_severity |->
                  IF ~has_conflicts THEN "none"
                  ELSE Severity(RMaxOf([m \in over |-> over_allocated_periods[m].over_allocation_amount])),
              over_allocated_periods |-> over_allocated_periods,
              conflict_count |-> Cardinality(over),
              timeline |-> timeline]

\* (ExistingAssignmentsWithin: the query narrowed to the assignments that lie
\* inside the new period.)
ExistingAssignmentsWithin(table, staff_id, new_start_date, new_end_date, exclude_assignment_id) ==
    {a \in DOMAIN table :
        /\ table[a].staff_id = staff_id
        /\ table[a].start_date >= new_start_date
        /\ table[a].end_date <= new_end_date
        /\ (exclude_assignment_id \notin {None, 0} => a # exclude_assignment_id)}

\* The assignments fetched by validate_assignment_allocation.
ExistingAssignments(table, staff_id, new_start_date, new_end_date, exclude_assignment_id) ==
    {a \in DOMAIN table :
        /\ table[a].staff_id = staff_id
        /\ table[a].start_date <= new_end_date
        /\ table[a].end_date >= new_start_date
        /\ (exclude_assignment_id \notin {None, 0} => a # exclude_assignment_id)}

validate_assignment_allocation(table, staff_id, new_start_date, new_end_date, new_allocation_percentage, exclude_assignment_id) ==
    IF staff_id \notin DOMAIN staff THEN [status |-> "ValueError"]
    ELSE LET existing == ExistingAssignments(table, staff_id, new_start_date, new_end_date, exclude_assignment_id)
             existing_allocation(m) == MonthData(table, existing, m).total_allocation
             projected_total(m) == RAdd(existing_allocation(m), new_allocation_percentage)
             conflicting == {m \in MonthsWalked(new_start_date, new_end_date) :
                                RGt(projected_total(m), R(100))}
             conflicts == [m \in conflicting |->
                              [existing_allocation    |-> Round1(existing_allocation(m)),
                               new_allocation         |-> new_allocation_percentage,
                               projected_total        |-> Round1(projected_total(m)),
                               over_allocation_amount |-> Round1(RSub(projected_total(m), R(100)))]]
         IN  [status |-> "ok",
              is_valid |-> Cardinality(conflicting) = 0,
              conflicts |-> conflicts,
              conflict_count |-> Cardinality(conflicting),
              can_override |-> TRUE]

(***************************************************************************)
(* routes: assignment requests                                             *)
(***************************************************************************)
\* The id the database gives a new row of a table whose ids are ids.
NextId(ids) == IF ids = {} THEN 1 ELSE (CHOOSE i \in ids : \A j \in ids : j <= i) + 1

\* (validate_date_range_allows_equal: a range of a single day accepted.)
validate_date_range_allows_equal(start_date, end_date) ==
    IF start_date # None /\ end_date # None /\ start_date > end_date
    THEN "ValidationError" ELSE "ok"

validate_date_range(start_date, end_date) ==
    IF start_date # None /\ end_date # None /\ start_date >= end_date
    THEN "ValidationError" ELSE "ok"

validate_assignment_data(data) ==
    IF None \in {data.staff_id, data.project_id, data.start_date, data.end_date, data.hours_per_week}
        THEN "ValidationError"
    ELSE IF data.staff_id \notin DOMAIN staff THEN "NotFoundError"
    ELSE IF data.project_id \notin DOMAIN projects THEN "NotFoundError"
    ELSE IF validate_date_range(data.start_date, data.end_date) # "ok" THEN "ValidationError"
    ELSE IF data.hours_per_week <= 0 THEN "ValidationError"
    ELSE IF "allocation_type" \in data.present /\ data.allocation_type \notin ALLOCATION_TYPES
        THEN "ValidationError"
    ELSE IF /\ "allocation_percentage" \in data.present
            /\ (RGt(R(0), data.allocation_percentage) \/ RGt(data.allocation_percentage, R(100)))
        THEN "ValidationError"
    ELSE "ok"

\* Assignment.__init__ applied to the request body, as create_assignment calls it.
NewAssignment(data) ==
    [staff_id              |-> data.staff_id,
     project_id            |-> data.project_id,
     start_date            |-> data.start_date,
     end_date              |-> data.end_date,
     hours_per_week        |-> data.hours_per_week,
     role_on_project       |-> data.role_on_project,
     allocation_type       |-> IF "allocation_type" \in data.present
                               THEN data.allocation_type ELSE ALLOCATION_FULL,
     allocation_percentage |-> IF "allocation_percentage" \in data.present
                               THEN data.allocation_percentage ELSE R(100)]

\* create_assignment adds monthly rows for a percentage_monthly request with
\* a non-empty monthly_allocations list.
HasMonthlyRows(data) ==
    /\ "allocation_type" \in data.present
    /\ data.allocation_type = ALLOCATION_PERCENTAGE_MONTHLY
    /\ data.monthly_allocations # <<>>

\* Two entries of the list name the same date: the commit of the rows
\* breaks unique_assignment_month and is reported as a failed database
\* operation, after the assignment itself has been committed.
MonthlyRowsClash(mas) == \E i, j \in DOMAIN mas : i # j /\ mas[i].month = mas[j].month

\* The AssignmentMonthlyAllocation rows create_assignment adds for a new
\* assignment: the month as the request gives it, the percentage as given.
RECURSIVE AddMonthlyRows(_, _, _)
AddMonthlyRows(rows, id, mas) ==
    IF mas = <<>> THEN rows
    ELSE AddMonthlyRows(
             rows @@ (NextId(DOMAIN rows) :>
                        [assignment_id |-> id,
                         month |-> Head(mas).month,
                         allocation_percentage |-> Head(mas).allocation_percentage]),
             id, Tail(mas))

\* (create_assignment_blocking: create_assignment turned into a hard gate that
\* refuses a request the allocation validator reports as over-allocating.)
create_assignment_blocking(data) ==
    LET checked == validate_assignment_data(data)
        status  == IF checked = "ok"
                      /\ ~validate_assignment_allocation(assignments, data.staff_id, data.start_date, data.end_date,
                              NewAssignment(data).allocation_percentage, None).is_valid
                   THEN "ConflictError" ELSE checked
        id     == NextId(DOMAIN assignments)
    IN  /\ id <= MaxAssignments
        /\ IF status = "ok"
           THEN /\ assignments' = assignments @@ (id :> NewAssignment(data))
                /\ monthly_allocations' =
                       IF HasMonthlyRows(data) /\ ~MonthlyRowsClash(data.monthly_allocations)
                       THEN AddMonthlyRows(monthly_allocations, id, data.monthly_allocations)
                       ELSE monthly_allocations
                /\ lastCall' = [op |-> "create_assignment",
                                status |-> IF HasMonthlyRows(data)
                                              /\ MonthlyRowsClash(data.monthly_allocations)
                                           THEN "HBStaffingError" ELSE "ok"]
           ELSE /\ UNCHANGED <<assignments, monthly_allocations>>
                /\ lastCall' = [op |-> "create_assignment", status |-> status]
        /\ UNCHANGED <<roles, staff, projects, role_rates, templates, planning_exercises, planning_projects, planning_roles, ghost_staff>>

create_assignment(data) ==
    LET status == validate_assignment_data(data)
        id     == NextId(DOMAIN assignments)
    IN  /\ id <= MaxAssignments
        /\ IF status = "ok"
           THEN /\ assignments' = assignments @@ (id :> NewAssignment(data))
                /\ monthly_allocations' =
                       IF HasMonthlyRows(data) /\ ~MonthlyRowsClash(data.monthly_allocations)
                       THEN AddMonthlyRows(monthly_allocations, id, data.monthly_allocations)
                       ELSE monthly_allocations
                /\ lastCall' = [op |-> "create_assignment",
                                status |-> IF HasMonthlyRows(data)
                                              /\ MonthlyRowsClash(data.monthly_allocations)
                                           THEN "HBStaffingError" ELSE "ok"]
           ELSE /\ UNCHANGED <<assignments, monthly_allocations>>
                /\ lastCall' = [op |-> "create_assignment", status |-> status]
        /\ UNCHANGED <<roles, staff, projects, role_rates, templates, planning_exercises, planning_projects, planning_roles, ghost_staff>>

update_assignment(assignment_id, data) ==
    LET status == IF assignment_id \notin DOMAIN assignments THEN "NotFoundError"
                  ELSE validate_assignment_data(data)
    IN  /\ IF status = "ok"
           THEN assignments' =
                    [assignments EXCEPT ![assignment_id] =
                        [staff_id              |-> data.staff_id,
                         project_id            |-> data.project_id,
                         start_date            |-> data.start_date,
                         end_date              |-> data.end_date,
                         hours_per_week        |-> data.hours_per_week,
                         role_on_project       |-> data.role_on_project,
                         allocation_type       |-> IF "allocation_type" \in data.present
                                                   THEN data.allocation_type ELSE @.allocation_type,
                         allocation_percentage |-> IF "allocation_percentage" \in data.present
                                                   THEN data.allocation_percentage
                                                   ELSE @.allocation_percentage]]
           ELSE UNCHANGED assignments
        /\ lastCall' = [op |-> "update_assignment", status |-> status]
        /\ UNCHANGED <<roles, staff, projects, role_rates, monthly_allocations, templates, planning_exercises, planning_projects, planning_roles, ghost_staff>>

delete_assignment(assignment_id) ==
    /\ IF assignment_id \in DOMAIN assignments
       THEN /\ assignments' = [a \in DOMAIN assignments \ {assignment_id} |-> assignments[a]]
            /\ monthly_allocations' =
                   [i \in DOMAIN monthly_allocations \ MonthlyRowsOf(assignment_id) |-> monthly_allocations[i]]
            /\ lastCall' = [op |-> "delete_assignment", status |-> "ok"]
       ELSE /\ UNCHANGED <<assignments, monthly_allocations>>
            /\ lastCall' = [op |-> "delete_assignment", status |-> "NotFoundError"]
    /\ UNCHANGED <<roles, staff, projects, role_rates, templates, planning_exercises, planning_projects, planning_roles, ghost_staff>>

(***************************************************************************)
(* routes: the allocation queries, each recording its arguments and result *)
(***************************************************************************)
\* The read-only requests.  They leave the database as it is, so every
\* database state and every response is reached by a run whose only query
\* is its last request: the specifications stop after a query.
QueryOps ==
    {"get_staff_allocation_timeline", "detect_over_allocations", "validate_assignment_allocation",
     "get_role_rate", "get_effective_billable_rate",
     "calculate_project_staffing_needs", "simulate_scenario", "get_allocation_for_period",
     "suggest_staff_for_role", "flag_new_hire_needs", "calculate_minimum_staff_per_role",
     "detect_staffing_gaps", "calculate_project_cost"}

AllocationTimeline(staff_id, start_date, end_date) ==
    /\ lastCall' = [op |-> "get_staff_allocation_timeline",
                    staff_id |-> staff_id, start_date |-> start_date, end_date |-> end_date,
                    result |-> get_staff_allocation_timeline(assignments, staff_id, start_date, end_date)]
    /\ UNCHANGED <<roles, staff, projects, role_rates, assignments, monthly_allocations, templates, planning_exercises, planning_projects, planning_roles, ghost_staff>>

AllocationConflicts(staff_id, start_date, end_date) ==
    /\ lastCall' = [op |-> "detect_over_allocations",
                    staff_id |-> staff_id, start_date |-> start_date, end_date |-> end_date,
                    result |-> detect_over_allocations(assignments, staff_id, start_date, end_date)]
    /\ UNCHANGED <<roles, staff, projects, role_rates, assignments, monthly_allocations, templates, planning_exercises, planning_projects, planning_roles, ghost_staff>>

ValidateAllocation(staff_id, start_date, end_date, pct, exclude_assignment_id) ==
    /\ lastCall' = [op |-> "validate_assignment_allocation",
                    staff_id |-> staff_id, start_date |-> start_date, end_date |-> end_date,
                    allocation_percentage |-> pct, exclude_assignment_id |-> exclude_assignment_id,
                    result |-> validate_assignment_allocation(assignments, staff_id, start_date, end_date,
                                                              pct, exclude_assignment_id)]
    /\ UNCHANGED <<roles, staff, projects, role_rates, assignments, monthly_allocations, templates, planning_exercises, planning_projects, planning_roles, ghost_staff>>

(***************************************************************************)
(* Allocation specification: two staff members of one role, one project,   *)
(* assignment writes and the allocation queries.                           *)
(***************************************************************************)
AllocDateRanges == {<<0, 9>>, <<0, 59>>, <<31, 59>>}

AllocWindows == {<<0, 59>>, <<14, 59>>}

KindFull ==
    [present |-> {"allocation_type"}, allocation_type |-> ALLOCATION_FULL,
     allocation_percentage |-> R(100), monthly_allocations |-> <<>>]

KindSplit ==
    [present |-> {"allocation_type"}, allocation_type |-> ALLOCATION_SPLIT_BY_PROJECTS,
     allocation_percentage |-> R(100), monthly_allocations |-> <<>>]

\* percentage_total at 50.04 percent
KindTotal ==
    [present |-> {"allocation_type", "allocation_percentage"},
     allocation_type |-> ALLOCATION_PERCENTAGE_TOTAL,
     allocation_percentage |-> <<1251, 25>>, monthly_allocations |-> <<>>]

\* percentage_monthly with 50 percent stored for January
KindMonthly ==
    [present |-> {"allocation_type"}, allocation_type |-> ALLOCATION_PERCENTAGE_MONTHLY,
     allocation_percentage |-> R(100),
     monthly_allocations |-> <<[month |-> 0, allocation_percentage |-> R(50)]>>]

AssignmentRequest(staff_id, range, kind) ==
    [staff_id |-> staff_id, project_id |-> 1,
     start_date |-> range[1], end_date |-> range[2],
     hours_per_week |-> 40, role_on_project |-> "",
     present |-> kind.present, allocation_type |-> kind.allocation_type,
     allocation_percentage |-> kind.allocation_percentage,
     monthly_allocations |-> kind.monthly_allocations]

\* Requests that validate_assignment_data rejects: end not after start,
\* unknown staff member, percentage outside [0, 100], a missing date, an
\* unknown allocation type, and an unknown staff member with end = start.
AllocBadRequests ==
    {AssignmentRequest(1, <<9, 9>>, KindFull),
     AssignmentRequest(3, <<0, 9>>, KindFull),
     [AssignmentRequest(1, <<0, 9>>, KindTotal) EXCEPT !.allocation_percentage = R(150)],
     [AssignmentRequest(1, <<0, 9>>, KindTotal) EXCEPT !.allocation_percentage = R(0 - 5)],
     AssignmentRequest(1, <<9, 0>>, KindFull),
     AssignmentRequest(1, <<None, 9>>, KindFull),
     AssignmentRequest(1, <<0, None>>, KindFull),
     [AssignmentRequest(1, <<0, 9>>, KindFull) EXCEPT !.allocation_type = "half"],
     AssignmentRequest(3, <<9, 9>>, KindFull)}

AllocRequests ==
    {AssignmentRequest(1, r, k) : r \in AllocDateRanges, k \in {KindFull, KindSplit, KindTotal}}
    \cup {AssignmentRequest(2, <<0, 59>>, KindFull)}
    \cup AllocBadRequests

\* The bodies sent to update_assignment: the rejected ones are an end date
\* equal to and before the start date, an unknown staff member, and a
\* percentage above 100.
AllocUpdateRequests ==
    {AssignmentRequest(1, r, k) : r \in AllocDateRanges, k \in {KindFull, KindTotal}}
    \cup {AssignmentRequest(1, <<9, 9>>, KindFull),
          AssignmentRequest(1, <<9, 0>>, KindFull),
          AssignmentRequest(3, <<9, 9>>, KindFull),
          [AssignmentRequest(1, <<0, 9>>, KindTotal) EXCEPT !.allocation_percentage = R(150)]}

AllocInit ==
    /\ roles = (1 :> [name |-> "R1", hourly_cost |-> 50, default_billable_rate |-> None, is_active |-> TRUE])
    /\ staff = (1 :> [name |-> "S1", role_id |-> 1, internal_hourly_cost |-> 50])
               @@ (2 :> [name |-> "S2", role_id |-> 1, internal_hourly_cost |-> 50])
    /\ projects = (1 :> [name |-> "P1", parent_project_id |-> None, is_folder |-> FALSE,
                         start_date |-> 0, end_date |-> 59])
    /\ role_rates = << >>
    /\ assignments = << >>
    /\ monthly_allocations = << >>
    /\ planning_exercises = << >>
    /\ planning_projects = << >>
    /\ planning_roles = << >>
    /\ templates = << >>
    /\ ghost_staff = << >>
    /\ lastCall = [op |-> "none"]

\* No query has been answered yet in this run.
NoQueryYet == lastCall.op \notin QueryOps

AllocCreate == NoQueryYet /\ \E data \in AllocRequests : create_assignment(data)

AllocUpdate ==
    /\ NoQueryYet
    /\ \E id \in 1..MaxAssignments :
          \E data \in (IF id \in DOMAIN assignments THEN AllocUpdateRequests
                       ELSE {AssignmentRequest(1, <<0, 9>>, KindFull)}) :
              update_assignment(id, data)

AllocDelete == NoQueryYet /\ \E id \in 1..MaxAssignments : delete_assignment(id)

AllocTimeline == NoQueryYet /\ \E s \in 1..3, w \in AllocWindows : AllocationTimeline(s, w[1], w[2])

AllocConflicts == NoQueryYet /\ \E s \in 1..3, w \in AllocWindows : AllocationConflicts(s, w[1], w[2])

AllocValidate ==
    /\ NoQueryYet
    /\ \E s \in 1..3, w \in AllocWindows, pct \in {R(50), R(100)}, x \in {None, 1} :
          ValidateAllocation(s, w[1], w[2], pct, x)

AllocNext ==
    \/ AllocCreate
    \/ AllocUpdate
    \/ AllocDelete
    \/ AllocTimeline
    \/ AllocConflicts
    \/ AllocValidate

SpecAlloc == AllocInit /\ [][AllocNext]_vars

(***************************************************************************)
(* Properties of the allocation resolver and the over-allocation checks    *)
(***************************************************************************)
\* The stored assignments of a staff member whose date range intersects [period_start, period_end].
AssignmentsIntersecting(staff_id, period_start, period_end) ==
    {a \in DOMAIN assignments :
        /\ assignments[a].staff_id = staff_id
        /\ calculate_date_range_overlap(assignments[a].start_date, assignments[a].end_date,
                                        period_start, period_end) > 0}

\* The calendar months from the month of start_date through the month of end_date.
CalendarMonths(start_date, end_date) == {m \in 1..12 : MonthOf(start_date) <= m /\ m <= MonthOf(end_date)}

\* The sum of the effective allocations, over calendar month m, of the given assignments.
MonthTotal(as, m) == RSum([a \in as |-> get_allocation_for_period(assignments, a, MonthStart(m), MonthEnd(m))])

AllocPeriods == {<<MonthStart(1), MonthEnd(1)>>, <<MonthStart(2), MonthEnd(2)>>} \cup AllocWindows

\* C1: a split_by_projects assignment A of staff member S has, over any period
\* that intersects A, the effective allocation 100/n, n being the number of
\* S's stored assignments of any type that intersect the period (100 for
\* n = 1, 50 for n = 2); it is computed from the stored state, and a write of
\* another assignment leaves A's stored allocation_percentage as it was.
C1_SplitState ==
    \A a \in DOMAIN assignments : \A pd \in AllocPeriods :
        (/\ assignments[a].allocation_type = ALLOCATION_SPLIT_BY_PROJECTS
         /\ a \in AssignmentsIntersecting(assignments[a].staff_id, pd[1], pd[2]))
        => LET n == Cardinality(AssignmentsIntersecting(assignments[a].staff_id, pd[1], pd[2]))
               e == get_allocation_for_period(assignments, a, pd[1], pd[2])
           IN  /\ RMul(e, R(n)) = R(100)
               /\ (n = 1 => e = R(100))
               /\ (n = 2 => e = R(50))

C1_SplitStep ==
    (lastCall'.op \in {"create_assignment", "delete_assignment"})
    => \A a \in DOMAIN assignments \cap DOMAIN assignments' :
           assignments'[a].allocation_percentage = assignments[a].allocation_percentage

C1_SplitByProjects == [](C1_SplitState) /\ [][C1_SplitStep]_vars

\* A second overlapping assignment has just been created and a split
\* assignment stored at 100 resolves to 50.
C1_Witness ==
    /\ lastCall.op = "create_assignment" /\ lastCall.status = "ok"
    /\ \E a \in DOMAIN assignments :
          /\ assignments[a].allocation_type = ALLOCATION_SPLIT_BY_PROJECTS
          /\ assignments[a].allocation_percentage = R(100)
          /\ Cardinality(AssignmentsIntersecting(assignments[a].staff_id, MonthStart(1), MonthEnd(1))) = 2
          /\ get_allocation_for_period(assignments, a, MonthStart(1), MonthEnd(1)) = R(50)
          /\ get_allocation_for_period(assignments, a, MonthStart(2), MonthEnd(2)) = R(100)

\* C4: the timeline reports every calendar month from the month of start
\* through the month of end, with total_allocation the sum of the effective
\* allocation over every stored assignment of the staff member that
\* intersects the calendar month, and is_over_allocated = (total > 100).
C4_TimelineSumsMonth ==
    (lastCall.op = "get_staff_allocation_timeline" /\ lastCall.result.status = "ok")
    => LET tl == lastCall.result.monthly_allocations
       IN  /\ DOMAIN tl = CalendarMonths(lastCall.start_date, lastCall.end_date)
           /\ \A m \in DOMAIN tl :
                 LET total == MonthTotal(AssignmentsIntersecting(lastCall.staff_id, MonthStart(m), MonthEnd(m)), m)
                 IN  /\ tl[m].total_allocation = total
                     /\ tl[m].is_over_allocated = RGt(total, R(100))

\* C5: two assignments of type full that both intersect a calendar month lying
\* inside the queried window make the timeline mark that month over-allocated
\* (total_allocation = 200 when they are the staff member's only assignments
\* of that month) and detect_over_allocations report has_conflicts; a staff
\* member with no assignments has has_conflicts = false and conflict_count = 0.
C5_TwoFullAssignments ==
    (lastCall.op = "detect_over_allocations" /\ lastCall.result.status = "ok")
    => LET res == lastCall.result
           s   == lastCall.staff_id
       IN  /\ \A m \in 1..12 :
                 (MonthStart(m) >= lastCall.start_date /\ MonthEnd(m) <= lastCall.end_date)
                 => LET all  == AssignmentsIntersecting(s, MonthStart(m), MonthEnd(m))
                        full == {a \in all : assignments[a].allocation_type = ALLOCATION_FULL}
                    IN  /\ Cardinality(full) >= 2
                           => /\ m \in DOMAIN res.timeline
                              /\ res.timeline[m].is_over_allocated
                              /\ res.has_conflicts
                        /\ (Cardinality(full) = 2 /\ all = full)
                           => res.timeline[m].total_allocation = R(200)
           /\ (\A a \in DOMAIN assignments : assignments[a].staff_id # s)
              => (~res.has_conflicts /\ res.conflict_count = 0)

C5_Witness ==
    /\ lastCall.op = "detect_over_allocations" /\ lastCall.result.status = "ok"
    /\ lastCall.result.has_conflicts
    /\ \E m \in DOMAIN lastCall.result.timeline :
          /\ MonthStart(m) >= lastCall.start_date /\ MonthEnd(m) <= lastCall.end_date
          /\ lastCall.result.timeline[m].total_allocation = R(200)
          /\ Cardinality({a \in AssignmentsIntersecting(lastCall.staff_id, MonthStart(m), MonthEnd(m)) :
                             assignments[a].allocation_type = ALLOCATION_FULL}) = 2

\* C6: overall_severity follows the largest monthly excess of total_allocation
\* over 100 in the timeline: none when no month exceeds 100, critical when it
\* is above 50, high when above 25 and at most 50, moderate otherwise.
C6_OverallSeverity ==
    (lastCall.op = "detect_over_allocations" /\ lastCall.result.status = "ok")
    => LET res  == lastCall.result
           over == {m \in DOMAIN res.timeline : RGt(res.timeline[m].total_allocation, R(100))}
           maxExcess == RMaxOf([m \in over |-> RSub(res.timeline[m].total_allocation, R(100))])
       IN  res.overall_severity =
               IF over = {} THEN "none"
               ELSE IF RGt(maxExcess, R(50)) THEN "critical"
               ELSE IF RGt(maxExcess, R(25)) THEN "high"
               ELSE "moderate"

\* C7: conflicts lists exactly the calendar months, from the month of the
\* proposed start through the month of the proposed end, in which the sum of
\* the effective allocations of the staff member's existing assignments that
\* intersect the month (the excluded one left out) plus the proposed
\* percentage exceeds 100; is_valid holds exactly when there is none.
C7_ValidateListsMonths ==
    (lastCall.op = "validate_assignment_allocation" /\ lastCall.result.status = "ok")
    => LET res == lastCall.result
           existing(m) == AssignmentsIntersecting(lastCall.staff_id, MonthStart(m), MonthEnd(m))
                              \ {lastCall.exclude_assignment_id}
           expected == {m \in CalendarMonths(lastCall.start_date, lastCall.end_date) :
                           RGt(RAdd(MonthTotal(existing(m), m), lastCall.allocation_percentage), R(100))}
       IN  /\ DOMAIN res.conflicts = expected
           /\ res.is_valid = (expected = {})

\* A request body that names an existing staff member and project and has its
\* dates in order, positive hours, a known allocation type and a percentage
\* within [0, 100].
WellFormed(data) ==
    /\ data.staff_id \in DOMAIN staff /\ data.project_id \in DOMAIN projects
    /\ data.start_date # None /\ data.end_date # None /\ data.start_date < data.end_date
    /\ data.hours_per_week > 0
    /\ data.allocation_type \in ALLOCATION_TYPES
    /\ ~RGt(R(0), data.allocation_percentage) /\ ~RGt(data.allocation_percentage, R(100))

\* C8: over-allocation is advisory.  Every validation result has
\* can_override = true, the detector and the validator answer with data for
\* every existing staff member, and create_assignment and update_assignment
\* store every well-formed request whatever the combined allocation becomes.
C8_State ==
    /\ (lastCall.op = "validate_assignment_allocation" /\ lastCall.staff_id \in DOMAIN staff)
       => (lastCall.result.status = "ok" /\ lastCall.result.can_override = TRUE)
    /\ (lastCall.op = "detect_over_allocations" /\ lastCall.staff_id \in DOMAIN staff)
       => lastCall.result.status = "ok"

C8_Step ==
    \A data \in AllocRequests :
        (lastCall'.op \in {"create_assignment", "update_assignment"} /\ WellFormed(data))
        => /\ create_assignment(data)
              => (lastCall'.status = "ok" /\ DOMAIN assignments' # DOMAIN assignments)
           /\ \A id \in DOMAIN assignments :
                 update_assignment(id, data)
                 => (lastCall'.status = "ok" /\ assignments'[id].start_date = data.start_date
                                             /\ assignments'[id].staff_id = data.staff_id)

C8_AdvisoryOnly == [](C8_State) /\ [][C8_Step]_vars

\* A write has just been accepted that leaves a staff member above 100 in January.
C8_Witness ==
    /\ lastCall.op \in {"create_assignment", "update_assignment"} /\ lastCall.status = "ok"
    /\ \E s \in DOMAIN staff :
          RGt(MonthTotal(AssignmentsIntersecting(s, MonthStart(1), MonthEnd(1)), 1), R(100))

(***************************************************************************)
(* models.Project: the rate resolver                                       *)
(***************************************************************************)
\* The "no rate" result (Python None) of the rate lookups.
NoRateInfo == [rate |-> None, is_inherited |-> FALSE, source_project_id |-> None]

\* Project.parent_project: the parent row, None without one.
parent_project(p) ==
    IF projects[p].parent_project_id \in DOMAIN projects THEN projects[p].parent_project_id ELSE None

\* (get_role_rate_parent_source: get_role_rate tagging an inherited rate with
\* the id of the immediate parent instead of the defining project's.)
RECURSIVE get_role_rate_parent_source(_, _)
get_role_rate_parent_source(p, role_id) ==
    IF <<p, role_id>> \in DOMAIN role_rates
    THEN [rate |-> role_rates[<<p, role_id>>], is_inherited |-> FALSE, source_project_id |-> p]
    ELSE IF parent_project(p) # None
         THEN LET parent_rate == get_role_rate_parent_source(parent_project(p), role_id)
              IN  IF parent_rate # NoRateInfo
                  THEN [rate |-> parent_rate.rate, is_inherited |-> TRUE,
                        source_project_id |-> parent_project(p)]
                  ELSE NoRateInfo
         ELSE NoRateInfo

RECURSIVE get_role_rate(_, _)
get_role_rate(p, role_id) ==
    IF <<p, role_id>> \in DOMAIN role_rates
    THEN [rate |-> role_rates[<<p, role_id>>], is_inherited |-> FALSE, source_project_id |-> p]
    ELSE IF parent_project(p) # None
         THEN LET parent_rate == get_role_rate(parent_project(p), role_id)
              IN  IF parent_rate # NoRateInfo
                  THEN [rate |-> parent_rate.rate, is_inherited |-> TRUE,
                        source_project_id |-> parent_rate.source_project_id]
                  ELSE NoRateInfo
         ELSE NoRateInfo

\* Role.query.filter_by(name=role_name).first(): the id of the role, None if no role has the name.
RoleByName(role_name) ==
    IF \E r \in DOMAIN roles : roles[r].name = role_name
    THEN CHOOSE r \in DOMAIN roles : roles[r].name = role_name
    ELSE None

get_role_rate_by_name(p, role_name) ==
    IF RoleByName(role_name) # None THEN get_role_rate(p, RoleByName(role_name)) ELSE NoRateInfo

(***************************************************************************)
(* routes: project and project role rate requests                          *)
(***************************************************************************)
\* Project.sub_projects
sub_projects(p) == {c \in DOMAIN projects : projects[c].parent_project_id = p}

RECURSIVE is_descendant_of(_, _)
is_descendant_of(project_id, potential_ancestor_id) ==
    IF project_id \notin DOMAIN projects \/ projects[project_id].parent_project_id = None THEN FALSE
    ELSE IF projects[project_id].parent_project_id = potential_ancestor_id THEN TRUE
    ELSE is_descendant_of(projects[project_id].parent_project_id, potential_ancestor_id)

\* Whether the while loop of is_descendant_of ends: on a chain of parents
\* that cycles without meeting potential_ancestor_id it does not.
RECURSIVE DescendantWalkEnds(_, _, _)
DescendantWalkEnds(project_id, potential_ancestor_id, fuel) ==
    IF project_id \notin DOMAIN projects \/ projects[project_id].parent_project_id = None THEN TRUE
    ELSE IF projects[project_id].parent_project_id = potential_ancestor_id THEN TRUE
    ELSE IF fuel = 0 THEN FALSE
    ELSE DescendantWalkEnds(projects[project_id].parent_project_id, potential_ancestor_id, fuel - 1)

\* The hierarchy rules of validate_project_data (the request carries a valid name, status and dates).
validate_project_data(data, current_project_id) ==
    IF validate_date_range(data.start_date, data.end_date) # "ok" THEN "ValidationError"
    ELSE IF data.parent_project_id # None /\ data.parent_project_id \notin DOMAIN projects
        THEN "NotFoundError"
    ELSE IF data.parent_project_id # None /\ ~projects[data.parent_project_id].is_folder
        THEN "ValidationError"
    ELSE IF /\ data.parent_project_id # None /\ current_project_id # None
            /\ data.parent_project_id = current_project_id
        THEN "ValidationError"
    ELSE IF /\ data.parent_project_id # None /\ current_project_id # None
            /\ ~DescendantWalkEnds(data.parent_project_id, current_project_id, Cardinality(DOMAIN projects))
        THEN "NonTerminating"
    ELSE IF /\ data.parent_project_id # None /\ current_project_id # None
            /\ is_descendant_of(data.parent_project_id, current_project_id)
        THEN "ValidationError"
    ELSE IF /\ current_project_id # None /\ ~data.is_folder
            /\ current_project_id \in DOMAIN projects /\ sub_projects(current_project_id) # {}
        THEN "ValidationError"
    ELSE "ok"

\* The rates create_project adds for the new project: one per active role with a default billable rate.
AutoPopulatedRates(id) ==
    [k \in {<<id, r>> : r \in {x \in DOMAIN roles :
                                  roles[x].is_active /\ roles[x].default_billable_rate # None}}
        |-> roles[k[2]].default_billable_rate]

create_project(data) ==
    LET status == validate_project_data(data, None)
        id     == NextId(DOMAIN projects)
    IN  /\ id <= MaxProjects
        /\ IF status = "ok"
           THEN /\ projects' = projects @@
                       (id :> [name |-> data.name, parent_project_id |-> data.parent_project_id,
                               is_folder |-> data.is_folder,
                               start_date |-> data.start_date, end_date |-> data.end_date])
                /\ role_rates' = role_rates @@ AutoPopulatedRates(id)
           ELSE UNCHANGED <<projects, role_rates>>
        /\ lastCall' = [op |-> "create_project", status |-> status]
        /\ UNCHANGED <<roles, staff, assignments, monthly_allocations, templates, planning_exercises, planning_projects, planning_roles, ghost_staff>>

update_project_role_rate(project_id, role_id, billable_rate) ==
    LET status == IF project_id \notin DOMAIN projects \/ role_id \notin DOMAIN roles THEN "NotFoundError"
                  ELSE IF billable_rate <= 0 THEN "ValidationError"
                  ELSE "ok"
    IN  /\ IF status = "ok"
           THEN role_rates' = [k \in DOMAIN role_rates \cup {<<project_id, role_id>>} |->
                                  IF k = <<project_id, role_id>> THEN billable_rate ELSE role_rates[k]]
           ELSE UNCHANGED role_rates
        /\ lastCall' = [op |-> "update_project_role_rate", status |-> status]
        /\ UNCHANGED <<roles, staff, projects, assignments, monthly_allocations, templates, planning_exercises, planning_projects, planning_roles, ghost_staff>>

delete_project_role_rate(project_id, role_id) ==
    LET status == IF project_id \notin DOMAIN projects \/ <<project_id, role_id>> \notin DOMAIN role_rates
                  THEN "NotFoundError" ELSE "ok"
    IN  /\ IF status = "ok"
           THEN role_rates' = [k \in DOMAIN role_rates \ {<<project_id, role_id>>} |-> role_rates[k]]
           ELSE UNCHANGED role_rates
        /\ lastCall' = [op |-> "delete_project_role_rate", status |-> status]
        /\ UNCHANGED <<roles, staff, projects, assignments, monthly_allocations, templates, planning_exercises, planning_projects, planning_roles, ghost_staff>>

\* GET /projects/<id>/role-rates resolves the rate of each role through get_role_rate.
GetRoleRate(project_id, role_id) ==
    /\ project_id \in DOMAIN projects
    /\ lastCall' = [op |-> "get_role_rate", project_id |-> project_id, role_id |-> role_id,
                    result |-> get_role_rate(project_id, role_id)]
    /\ UNCHANGED <<roles, staff, projects, role_rates, assignments, monthly_allocations, templates, planning_exercises, planning_projects, planning_roles, ghost_staff>>

(***************************************************************************)
(* Rate specification: projects and folders are created, rates are set and *)
(* removed, and rates are resolved along the ancestry chain.               *)
(***************************************************************************)
ProjectRequest(parent_project_id, is_folder) ==
    [name |-> "P", parent_project_id |-> parent_project_id, is_folder |-> is_folder,
     start_date |-> None, end_date |-> None]

RateInit ==
    /\ roles = (1 :> [name |-> "R1", hourly_cost |-> 50, default_billable_rate |-> None, is_active |-> TRUE])
               @@ (2 :> [name |-> "R2", hourly_cost |-> 50, default_billable_rate |-> 70, is_active |-> TRUE])
    /\ staff = (1 :> [name |-> "S1", role_id |-> 1, internal_hourly_cost |-> 50])
    /\ projects = << >>
    /\ role_rates = << >>
    /\ assignments = << >>
    /\ monthly_allocations = << >>
    /\ planning_exercises = << >>
    /\ planning_projects = << >>
    /\ planning_roles = << >>
    /\ templates = << >>
    /\ ghost_staff = << >>
    /\ lastCall = [op |-> "none"]

RateCreateProject ==
    /\ NoQueryYet
    /\ \E parent \in {None} \cup 1..MaxProjects, is_folder \in BOOLEAN :
          create_project(ProjectRequest(parent, is_folder))

RateSet ==
    /\ NoQueryYet
    /\ \E p \in 1..MaxProjects, rate \in {150, 160} : update_project_role_rate(p, 1, rate)

RateDelete ==
    /\ NoQueryYet
    /\ \E p \in 1..MaxProjects, r \in DOMAIN roles : delete_project_role_rate(p, r)

RateGet == NoQueryYet /\ \E p \in DOMAIN projects, r \in DOMAIN roles : GetRoleRate(p, r)

RateNext ==
    \/ RateCreateProject
    \/ RateSet
    \/ RateDelete
    \/ RateGet

SpecRate == RateInit /\ [][RateNext]_vars

\* The project k steps up the parent chain from p (None beyond the root).
RECURSIVE AncestorAt(_, _)
AncestorAt(p, k) ==
    IF k = 0 THEN p
    ELSE LET below == AncestorAt(p, k - 1)
         IN  IF below = None THEN None ELSE projects[below].parent_project_id

\* C2: get_role_rate returns the rate of the nearest node of the chain
\* project, parent, grandparent, ... that holds an explicit rate for the role;
\* is_inherited is false exactly when that node is the project itself,
\* source_project_id is that node, and it returns no rate when no node of the
\* chain holds one.
C2_NearestRate ==
    lastCall.op = "get_role_rate"
    => LET p == lastCall.project_id
           r == lastCall.role_id
           holders == {k \in 0..Cardinality(DOMAIN projects) :
                          AncestorAt(p, k) # None /\ <<AncestorAt(p, k), r>> \in DOMAIN role_rates}
       IN  IF holders = {} THEN lastCall.result = NoRateInfo
           ELSE LET k0   == CHOOSE k \in holders : \A j \in holders : k <= j
                    node == AncestorAt(p, k0)
                IN  /\ lastCall.result.rate = role_rates[<<node, r>>]
                    /\ lastCall.result.is_inherited = (node # p)
                    /\ lastCall.result.source_project_id = node

\* A rate has been resolved from the grandparent of the project.
C2_Witness ==
    /\ lastCall.op = "get_role_rate"
    /\ lastCall.result.is_inherited
    /\ AncestorAt(lastCall.project_id, 2) # None
    /\ lastCall.result.source_project_id = AncestorAt(lastCall.project_id, 2)

(***************************************************************************)
(* models.Assignment: hours, billable rate and costs                       *)
(***************************************************************************)
duration_weeks(a) ==
    IF assignments[a].start_date # None /\ assignments[a].end_date # None
    THEN Norm(assignments[a].end_date - assignments[a].start_date, 7)
    ELSE R(0)

\* (total_hours_inclusive: total_hours counting the end date as a day.)
total_hours_inclusive(a) ==
    RMul(Norm(assignments[a].end_date - assignments[a].start_date + 1, 7), R(assignments[a].hours_per_week))

total_hours(a) == RMul(duration_weeks(a), R(assignments[a].hours_per_week))

\* Staff.default_billable_rate of the staff member of assignment a.
StaffDefaultRate(staff_id) ==
    IF staff_id \in DOMAIN staff /\ staff[staff_id].role_id \in DOMAIN roles
    THEN roles[staff[staff_id].role_id].default_billable_rate
    ELSE None

\* (get_effective_billable_rate_staff_role: the project rate looked up for the
\* staff member's own role instead of the role named by role_on_project.)
get_effective_billable_rate_staff_role(a) ==
    LET self == assignments[a]
        rate_info == IF self.project_id \in DOMAIN projects /\ self.role_on_project # ""
                     THEN get_role_rate(self.project_id, staff[self.staff_id].role_id)
                     ELSE NoRateInfo
        default == StaffDefaultRate(self.staff_id)
    IN  IF rate_info # NoRateInfo
        THEN [rate |-> rate_info.rate,
              source |-> IF rate_info.is_inherited THEN "inherited_project_role_rate"
                         ELSE "project_role_rate"]
        ELSE IF default # None /\ default # 0
        THEN [rate |-> default, source |-> "role_default_billable_rate"]
        ELSE [rate |-> 0, source |-> "none"]

get_effective_billable_rate(a) ==
    LET self == assignments[a]
        rate_info == IF self.project_id \in DOMAIN projects /\ self.role_on_project # ""
                     THEN get_role_rate_by_name(self.project_id, self.role_on_project)
                     ELSE NoRateInfo
        default == StaffDefaultRate(self.staff_id)
    IN  IF rate_info # NoRateInfo
        THEN [rate |-> rate_info.rate,
              source |-> IF rate_info.is_inherited THEN "inherited_project_role_rate"
                         ELSE "project_role_rate"]
        ELSE IF default # None /\ default # 0
        THEN [rate |-> default, source |-> "role_default_billable_rate"]
        ELSE [rate |-> 0, source |-> "none"]

estimated_cost(a) == RMul(total_hours(a), R(get_effective_billable_rate(a).rate))

internal_cost(a) ==
    IF assignments[a].staff_id \in DOMAIN staff
    THEN RMul(total_hours(a), R(staff[assignments[a].staff_id].internal_hourly_cost))
    ELSE R(0)

allocated_estimated_cost(a) == RMul(estimated_cost(a), RDiv(effective_allocation(a), 100))

allocated_internal_cost(a) == RMul(internal_cost(a), RDiv(effective_allocation(a), 100))

\* Assignment.to_dict reports the effective billable rate of a stored assignment.
GetBillableRate(assignment_id) ==
    /\ assignment_id \in DOMAIN assignments
    /\ lastCall' = [op |-> "get_effective_billable_rate", assignment_id |-> assignment_id,
                    result |-> get_effective_billable_rate(assignment_id)]
    /\ UNCHANGED <<roles, staff, projects, role_rates, assignments, monthly_allocations, templates, planning_exercises, planning_projects, planning_roles, ghost_staff>>

(***************************************************************************)
(* engine.calculate_project_cost                                           *)
(***************************************************************************)
\* The keys rate_sources starts with.
RateSourceKeys == {"project_role_rate", "inherited_project_role_rate", "role_default_billable_rate"}

\* The loop over the project's assignments and the dictionary returned;
\* rate_sources[rate_info['source']] += 1 raises KeyError for a source that
\* is not a key.  The per-staff and per-role sums, the details and the
\* budget are left out.
ProjectCost(project_id, as) ==
    IF \E a \in as : get_effective_billable_rate(a).source \notin RateSourceKeys
    THEN [status |-> "KeyError"]
    ELSE [status |-> "ok", project_id |-> project_id,
          total_cost |-> RSum([a \in as |-> estimated_cost(a)]),
          total_internal_cost |-> RSum([a \in as |-> internal_cost(a)]),
          total_allocated_cost |-> RSum([a \in as |-> allocated_estimated_cost(a)]),
          total_allocated_internal_cost |-> RSum([a \in as |-> allocated_internal_cost(a)]),
          rate_sources |-> [k \in RateSourceKeys |->
                               Cardinality({a \in as : get_effective_billable_rate(a).source = k})],
          assignments_count |-> Cardinality(as)]

calculate_project_cost(project_id) ==
    IF project_id \notin DOMAIN projects THEN [status |-> "ValueError"]
    ELSE ProjectCost(project_id, {a \in DOMAIN assignments : assignments[a].project_id = project_id})

\* GET /projects/<id>/cost
CalculateProjectCost(project_id) ==
    /\ lastCall' = [op |-> "calculate_project_cost", project_id |-> project_id,
                    result |-> calculate_project_cost(project_id)]
    /\ UNCHANGED <<roles, staff, projects, role_rates, assignments, monthly_allocations, templates,
                   planning_exercises, planning_projects, planning_roles, ghost_staff>>

(***************************************************************************)
(* Billing specification: a folder with one sub-project, rates set and     *)
(* removed on both, assignments naming a role, the effective billable rate *)
(***************************************************************************)
BillInit ==
    /\ roles = (1 :> [name |-> "R1", hourly_cost |-> 50, default_billable_rate |-> None, is_active |-> TRUE])
               @@ (2 :> [name |-> "R2", hourly_cost |-> 50, default_billable_rate |-> 70, is_active |-> TRUE])
    /\ staff = (1 :> [name |-> "S1", role_id |-> 1, internal_hourly_cost |-> 50])
               @@ (2 :> [name |-> "S2", role_id |-> 2, internal_hourly_cost |-> 60])
    /\ projects = (1 :> [name |-> "P", parent_project_id |-> None, is_folder |-> TRUE,
                         start_date |-> None, end_date |-> None])
                  @@ (2 :> [name |-> "P", parent_project_id |-> 1, is_folder |-> FALSE,
                            start_date |-> 2, end_date |-> 30])
    /\ role_rates = (<<1, 2>> :> 70) @@ (<<2, 2>> :> 70)
    /\ assignments = << >>
    /\ monthly_allocations = << >>
    /\ planning_exercises = << >>
    /\ planning_projects = << >>
    /\ planning_roles = << >>
    /\ templates = << >>
    /\ ghost_staff = << >>
    /\ lastCall = [op |-> "none"]

BillRequests ==
    {[AssignmentRequest(s, <<2, 30>>, KindFull) EXCEPT !.project_id = p, !.role_on_project = n] :
        s \in {1, 2}, p \in {1, 2}, n \in {"", "R1", "R2", "Rx"}}

BillSet == NoQueryYet /\ \E p \in {1, 2} : update_project_role_rate(p, 1, 150)

BillUnset == NoQueryYet /\ \E p \in {1, 2}, r \in {1, 2} : delete_project_role_rate(p, r)

BillCreate == NoQueryYet /\ \E data \in BillRequests : create_assignment(data)

BillDelete == NoQueryYet /\ \E id \in 1..MaxAssignments : delete_assignment(id)

BillGet == NoQueryYet /\ \E id \in DOMAIN assignments : GetBillableRate(id)

BillCost == NoQueryYet /\ \E p \in 1..3 : CalculateProjectCost(p)

BillNext ==
    \/ BillSet
    \/ BillUnset
    \/ BillCreate
    \/ BillDelete
    \/ BillGet
    \/ BillCost

SpecBill == BillInit /\ [][BillNext]_vars

RQuot(a, b) == Norm(a[1] * b[2], a[2] * b[1])

\* The Mondays visited by "current_date = start; while current_date <= end; += 7 days".
WeekStarts(start_date, end_date) ==
    {(start_date + 7 * k) - weekday(start_date + 7 * k) : k \in 0..((end_date - start_date) \div 7)}

\* Assignment.query.filter_by(project_id=project_id).all()
ProjectAssignments(project_id) ==
    {a \in DOMAIN assignments : assignments[a].project_id = project_id}

\* (calculate_assignment_hours_always_allocated: the allocation applied even
\* when apply_allocation is false.)
calculate_assignment_hours_always_allocated(a, period_start, period_end, apply_allocation) ==
    LET overlap_days == calculate_date_range_overlap(assignments[a].start_date, assignments[a].end_date,
                                                     period_start, period_end)
    IN  IF overlap_days <= 0 THEN R(0)
        ELSE RMul(RMul(Norm(overlap_days, 7), R(assignments[a].hours_per_week)),
                  RDiv(get_allocation_for_period(assignments, a, period_start, period_end), 100))

calculate_assignment_hours_in_period(a, period_start, period_end, apply_allocation) ==
    LET overlap_days == calculate_date_range_overlap(assignments[a].start_date, assignments[a].end_date,
                                                     period_start, period_end)
        raw_hours == RMul(Norm(overlap_days, 7), R(assignments[a].hours_per_week))
    IN  IF overlap_days <= 0 THEN R(0)
        ELSE IF apply_allocation
        THEN RMul(raw_hours, RDiv(get_allocation_for_period(assignments, a, period_start, period_end), 100))
        ELSE raw_hours

\* staff_breakdown[week][name] = hours is an assignment, so the last
\* assignment (in id order) of a name with hours > 0 leaves its hours.
StaffBreakdown(as, w) ==
    LET hours(a) == calculate_assignment_hours_in_period(a, w, w + 6, TRUE)
        counted  == {a \in as : RGt(hours(a), R(0))}
        names    == {staff[assignments[a].staff_id].name : a \in counted}
        last(n)  == CHOOSE a \in counted :
                       /\ staff[assignments[a].staff_id].name = n
                       /\ \A b \in counted : staff[assignments[b].staff_id].name = n => b <= a
    IN  [n \in names |-> hours(last(n))]

\* (ForecastPeriodCallOnly: the dates of the call without the project's defaults.)
ForecastPeriodCallOnly(project_id, start_date, end_date) == <<start_date, end_date>>

\* "Use project dates if not specified": the period the forecast covers.
ForecastPeriod(project_id, start_date, end_date) ==
    <<IF start_date = None THEN projects[project_id].start_date ELSE start_date,
      IF end_date = None THEN projects[project_id].end_date ELSE end_date>>

calculate_project_staffing_needs(project_id, start_date, end_date) ==
    IF project_id \notin DOMAIN projects THEN [status |-> "ValueError"]
    ELSE LET s == ForecastPeriod(project_id, start_date, end_date)[1]
             e == ForecastPeriod(project_id, start_date, end_date)[2]
             as == ProjectAssignments(project_id)
             hours(a, w) == calculate_assignment_hours_in_period(a, w, w + 6, TRUE)
             raw_hours(a, w) == calculate_assignment_hours_in_period(a, w, w + 6, FALSE)
         IN  IF s = None \/ e = None THEN [status |-> "ValueError"]
             ELSE [status |-> "ok",
                   weekly_staffing |->
                       [w \in {v \in WeekStarts(s, e) : \E a \in as : RGt(hours(a, v), R(0))} |->
                           RSum([a \in as |-> hours(a, w)])],
                   weekly_staffing_raw |->
                       [w \in {v \in WeekStarts(s, e) : \E a \in as : RGt(raw_hours(a, v), R(0))} |->
                           RSum([a \in as |-> raw_hours(a, w)])],
                   staff_breakdown |->
                       [w \in {v \in WeekStarts(s, e) : \E a \in as : RGt(hours(a, v), R(0))} |->
                           StaffBreakdown(as, w)],
                   total_estimated_cost |-> RSum([a \in as |-> estimated_cost(a)]),
                   total_internal_cost |-> RSum([a \in as |-> internal_cost(a)]),
                   total_allocated_cost |-> RSum([a \in as |-> allocated_estimated_cost(a)]),
                   total_allocated_internal_cost |-> RSum([a \in as |-> allocated_internal_cost(a)]),
                   assignments_count |-> Cardinality(as)]

(***************************************************************************)
(* engine.py: simulate_scenario                                            *)
(***************************************************************************)
RECURSIVE SortedIds(_)
SortedIds(S) ==
    IF S = {} THEN << >>
    ELSE LET m == CHOOSE x \in S : \A y \in S : x <= y
         IN  <<m>> \o SortedIds(S \ {m})

\* The stored assignments of the project that the change set keeps, with
\* the effective billable rate and the modified hours.
SimulatedStored(project_id, changes) ==
    LET ids == SortedIds({a \in ProjectAssignments(project_id) : a \notin changes.remove_assignments})
    IN  [i \in 1..Len(ids) |->
            [id |-> <<"stored", ids[i]>>,
             staff_name |-> staff[assignments[ids[i]].staff_id].name,
             billable_rate |-> get_effective_billable_rate(ids[i]).rate,
             start_date |-> assignments[ids[i]].start_date,
             end_date |-> assignments[ids[i]].end_date,
             hours_per_week |-> IF ids[i] \in DOMAIN changes.modify_hours
                                THEN changes.modify_hours[ids[i]]
                                ELSE assignments[ids[i]].hours_per_week]]

\* add_assignments entries whose staff member exists; the others are skipped.
AddedWithStaff(changes) ==
    SelectSeq(changes.add_assignments, LAMBDA n : n.staff_id \in DOMAIN staff)

\* rate_info['source'] is read when the project resolves a rate for the
\* named role, and get_role_rate returns no such key.
AddedRaisesKeyError(project_id, changes) ==
    \E i \in 1..Len(AddedWithStaff(changes)) :
        /\ AddedWithStaff(changes)[i].role_on_project # ""
        /\ get_role_rate_by_name(project_id, AddedWithStaff(changes)[i].role_on_project) # NoRateInfo

SimulatedAdded(project_id, changes, n_stored) ==
    LET added == AddedWithStaff(changes)
    IN  [i \in 1..Len(added) |->
            [id |-> <<"simulated", n_stored + i - 1>>,
             staff_name |-> staff[added[i].staff_id].name,
             billable_rate |-> IF StaffDefaultRate(added[i].staff_id) # None
                               THEN StaffDefaultRate(added[i].staff_id) ELSE 0,
             start_date |-> added[i].start_date,
             end_date |-> added[i].end_date,
             hours_per_week |-> added[i].hours_per_week]]

SimulatedHours(sa, w) ==
    RMul(Norm(calculate_date_range_overlap(sa.start_date, sa.end_date, w, w + 6), 7), R(sa.hours_per_week))

SimulatedBreakdown(sim, w) ==
    LET counted == {i \in DOMAIN sim :
                       calculate_date_range_overlap(sim[i].start_date, sim[i].end_date, w, w + 6) > 0}
        names   == {sim[i].staff_name : i \in counted}
        last(n) == CHOOSE i \in counted :
                       /\ sim[i].staff_name = n
                       /\ \A j \in counted : sim[j].staff_name = n => j <= i
    IN  [n \in names |-> SimulatedHours(sim[last(n)], w)]

SimulatedCost(sa) ==
    IF sa.start_date # None /\ sa.end_date # None
    THEN RMul(RMul(Norm(sa.end_date - sa.start_date, 7), R(sa.hours_per_week)), R(sa.billable_rate))
    ELSE R(0)

simulate_scenario(project_id, changes) ==
    IF project_id \notin DOMAIN projects THEN [status |-> "ValueError"]
    ELSE IF calculate_project_staffing_needs(project_id, None, None).status # "ok"
    THEN [status |-> "ValueError"]
    ELSE IF AddedRaisesKeyError(project_id, changes) THEN [status |-> "KeyError"]
    ELSE LET current_forecast == calculate_project_staffing_needs(project_id, None, None)
             stored == SimulatedStored(project_id, changes)
             sim == stored \o SimulatedAdded(project_id, changes, Len(stored))
             start_date == projects[project_id].start_date
             end_date == IF changes.extend_end_date # None THEN changes.extend_end_date
                         ELSE projects[project_id].end_date
             weeks == {w \in WeekStarts(start_date, end_date) :
                          \E i \in DOMAIN sim :
                              calculate_date_range_overlap(sim[i].start_date, sim[i].end_date, w, w + 6) > 0}
             total_cost == RSum([i \in DOMAIN sim |-> SimulatedCost(sim[i])])
             cost_difference == RSub(total_cost, current_forecast.total_estimated_cost)
         IN  [status |-> "ok",
              current_forecast |-> current_forecast,
              simulated_forecast |->
                  [weekly_staffing |-> [w \in weeks |-> RSum([i \in DOMAIN sim |-> SimulatedHours(sim[i], w)])],
                   staff_breakdown |-> [w \in weeks |-> SimulatedBreakdown(sim, w)],
                   total_estimated_cost |-> total_cost,
                   assignments_count |-> Len(sim)],
              impact_analysis |->
                  [cost_difference |-> cost_difference,
                   assignment_difference |-> Len(sim) - current_forecast.assignments_count,
                   percentage_cost_change |->
                       IF RGt(current_forecast.total_estimated_cost, R(0))
                       THEN RMul(RQuot(cost_difference, current_forecast.total_estimated_cost), R(100))
                       ELSE R(0)]]

\* GET /projects/<id>/forecast
ProjectForecast(project_id, start_date, end_date) ==
    /\ lastCall' = [op |-> "calculate_project_staffing_needs", project_id |-> project_id,
                    start_date |-> start_date, end_date |-> end_date,
                    result |-> calculate_project_staffing_needs(project_id, start_date, end_date)]
    /\ UNCHANGED <<roles, staff, projects, role_rates, assignments, monthly_allocations, templates, planning_exercises, planning_projects, planning_roles, ghost_staff>>

\* (SimulateForecastPersisting: a simulation that writes the modified hours
\* through to the stored assignments.)
SimulateForecastPersisting(project_id, changes) ==
    /\ lastCall' = [op |-> "simulate_scenario", project_id |-> project_id, changes |-> changes,
                    result |-> simulate_scenario(project_id, changes)]
    /\ assignments' = [a \in DOMAIN assignments |->
                          IF a \in DOMAIN changes.modify_hours
                          THEN [assignments[a] EXCEPT !.hours_per_week = changes.modify_hours[a]]
                          ELSE assignments[a]]
    /\ UNCHANGED <<roles, staff, projects, role_rates, monthly_allocations, templates, planning_exercises, planning_projects, planning_roles, ghost_staff>>

(***************************************************************************)
(* engine.detect_staffing_gaps                                             *)
(***************************************************************************)
\* The gaps of one project: an entry for every key of the forecast's
\* weekly_staffing whose hours are 0; none when the forecast raises
\* ValueError.
ProjectGaps(project_id, forecast) ==
    IF forecast.status # "ok" THEN {}
    ELSE {[type |-> "project_gap", project_id |-> project_id, week |-> w] :
              w \in {v \in DOMAIN forecast.weekly_staffing : forecast.weekly_staffing[v] = R(0)}}

\* Without a project the gaps of every project are gathered (the projects
\* of the model are all in planning or active).
detect_staffing_gaps(project_id, start_date, end_date) ==
    IF project_id # None
    THEN ProjectGaps(project_id, calculate_project_staffing_needs(project_id, start_date, end_date))
    ELSE UNION {ProjectGaps(p, calculate_project_staffing_needs(p, start_date, end_date)) :
                   p \in DOMAIN projects}

\* GET /forecasts/gaps
DetectStaffingGaps(project_id, start_date, end_date) ==
    /\ lastCall' = [op |-> "detect_staffing_gaps", project_id |-> project_id,
                    start_date |-> start_date, end_date |-> end_date,
                    result |-> detect_staffing_gaps(project_id, start_date, end_date)]
    /\ UNCHANGED <<roles, staff, projects, role_rates, assignments, monthly_allocations, templates,
                   planning_exercises, planning_projects, planning_roles, ghost_staff>>

\* POST /forecasts/simulate
SimulateForecast(project_id, changes) ==
    /\ lastCall' = [op |-> "simulate_scenario", project_id |-> project_id, changes |-> changes,
                    result |-> simulate_scenario(project_id, changes)]
    /\ UNCHANGED <<roles, staff, projects, role_rates, assignments, monthly_allocations, templates, planning_exercises, planning_projects, planning_roles, ghost_staff>>

(***************************************************************************)
(* Forecast specification: a folder holding a rate, one dated sub-project, *)
(* assignments created and deleted, forecasts and simulations requested    *)
(***************************************************************************)
KindHalf ==
    [present |-> {"allocation_type", "allocation_percentage"},
     allocation_type |-> ALLOCATION_PERCENTAGE_TOTAL, allocation_percentage |-> R(50),
     monthly_allocations |-> << >>]

KindZero ==
    [present |-> {"allocation_type", "allocation_percentage"},
     allocation_type |-> ALLOCATION_PERCENTAGE_TOTAL, allocation_percentage |-> R(0),
     monthly_allocations |-> << >>]

ForecastDateRanges == {<<2, 30>>, <<0, 9>>}

ForecastRequests ==
    {[AssignmentRequest(s, range, kind) EXCEPT !.project_id = 2,
                                               !.role_on_project = IF s = 1 THEN "R1" ELSE ""] :
        s \in {1, 2}, range \in ForecastDateRanges, kind \in {KindFull, KindHalf, KindZero}}
    \cup {[AssignmentRequest(1, <<2, 30>>, KindHalf) EXCEPT !.project_id = 2, !.hours_per_week = 20]}

EmptyChanges ==
    [remove_assignments |-> {}, modify_hours |-> << >>, add_assignments |-> << >>, extend_end_date |-> None]

NewSimulated(staff_id, role_on_project) ==
    [staff_id |-> staff_id, start_date |-> 7, end_date |-> 20,
     role_on_project |-> role_on_project, hours_per_week |-> 40]

ForecastChanges ==
    {EmptyChanges,
     [EmptyChanges EXCEPT !.remove_assignments = {1}],
     [EmptyChanges EXCEPT !.modify_hours = (1 :> 20)],
     [EmptyChanges EXCEPT !.add_assignments = <<NewSimulated(2, "")>>],
     [EmptyChanges EXCEPT !.add_assignments = <<NewSimulated(1, "R1")>>],
     [EmptyChanges EXCEPT !.add_assignments = <<NewSimulated(3, "")>>],
     [EmptyChanges EXCEPT !.extend_end_date = 44]}

ForecastInit ==
    /\ roles = (1 :> [name |-> "R1", hourly_cost |-> 50, default_billable_rate |-> None, is_active |-> TRUE])
               @@ (2 :> [name |-> "R2", hourly_cost |-> 50, default_billable_rate |-> 70, is_active |-> TRUE])
    /\ staff = (1 :> [name |-> "S1", role_id |-> 1, internal_hourly_cost |-> 50])
               @@ (2 :> [name |-> "S2", role_id |-> 2, internal_hourly_cost |-> 60])
    /\ projects = (1 :> [name |-> "P", parent_project_id |-> None, is_folder |-> TRUE,
                         start_date |-> None, end_date |-> None])
                  @@ (2 :> [name |-> "P", parent_project_id |-> 1, is_folder |-> FALSE,
                            start_date |-> 2, end_date |-> 30])
                  @@ (3 :> [name |-> "P", parent_project_id |-> 1, is_folder |-> FALSE,
                            start_date |-> None, end_date |-> 30])
    /\ role_rates = (<<1, 1>> :> 150) @@ (<<1, 2>> :> 70) @@ (<<2, 2>> :> 70) @@ (<<3, 2>> :> 70)
    /\ assignments = << >>
    /\ monthly_allocations = << >>
    /\ planning_exercises = << >>
    /\ planning_projects = << >>
    /\ planning_roles = << >>
    /\ templates = << >>
    /\ ghost_staff = << >>
    /\ lastCall = [op |-> "none"]

ForecastCreate == NoQueryYet /\ \E data \in ForecastRequests : create_assignment(data)

ForecastDelete == NoQueryYet /\ \E id \in 1..MaxAssignments : delete_assignment(id)

ForecastProject ==
    /\ NoQueryYet
    /\ \E p \in 1..4, range \in {<<None, None>>, <<9, 20>>, <<9, None>>} :
          ProjectForecast(p, range[1], range[2])

ForecastSimulate == NoQueryYet /\ \E p \in {1, 2, 4}, changes \in ForecastChanges : SimulateForecast(p, changes)

ForecastGaps ==
    /\ NoQueryYet
    /\ \E p \in {2, 3, 4, None}, range \in {<<None, None>>, <<9, 20>>, <<0, 30>>} :
          DetectStaffingGaps(p, range[1], range[2])

ForecastNext ==
    \/ ForecastCreate
    \/ ForecastDelete
    \/ ForecastProject
    \/ ForecastSimulate
    \/ ForecastGaps

SpecForecast == ForecastInit /\ [][ForecastNext]_vars

Lookup(f, k) == IF k \in DOMAIN f THEN f[k] ELSE R(0)

\* C9: when every assignment of the project has allocation type
\* percentage_total with one percentage p, the forecast has, for every week
\* key, weekly_staffing = weekly_staffing_raw * p/100 (a week without a
\* weekly_staffing entry counting as 0 hours), and total_allocated_cost =
\* total_estimated_cost * p/100.
C9_PercentageTotalScales ==
    (/\ lastCall.op = "calculate_project_staffing_needs"
     /\ lastCall.result.status = "ok"
     /\ ProjectAssignments(lastCall.project_id) # {})
    => \A p \in {assignments[a].allocation_percentage : a \in ProjectAssignments(lastCall.project_id)} :
          (\A a \in ProjectAssignments(lastCall.project_id) :
               /\ assignments[a].allocation_type = ALLOCATION_PERCENTAGE_TOTAL
               /\ assignments[a].allocation_percentage = p)
          => LET res == lastCall.result
             IN  /\ DOMAIN res.weekly_staffing \subseteq DOMAIN res.weekly_staffing_raw
                 /\ \A w \in DOMAIN res.weekly_staffing_raw :
                        Lookup(res.weekly_staffing, w) = RMul(res.weekly_staffing_raw[w], RDiv(p, 100))
                 /\ res.total_allocated_cost = RMul(res.total_estimated_cost, RDiv(p, 100))

\* One assignment at 40 h/week and 50 percent: a full week shows 20 of 40 hours.
C9_Witness ==
    /\ lastCall.op = "calculate_project_staffing_needs"
    /\ lastCall.result.status = "ok"
    /\ Cardinality(ProjectAssignments(lastCall.project_id)) = 1
    /\ \A a \in ProjectAssignments(lastCall.project_id) :
           /\ assignments[a].allocation_type = ALLOCATION_PERCENTAGE_TOTAL
           /\ assignments[a].allocation_percentage = R(50)
    /\ \E w \in DOMAIN lastCall.result.weekly_staffing :
           /\ lastCall.result.weekly_staffing[w] = R(20)
           /\ lastCall.result.weekly_staffing_raw[w] = R(40)
    /\ RGt(lastCall.result.total_estimated_cost, R(0))

\* C10: simulating a project that has start and end dates with an empty
\* change set gives cost_difference = 0 and assignment_difference = 0.
C10_EmptySimulation ==
    (/\ lastCall.op = "simulate_scenario"
     /\ lastCall.changes = EmptyChanges
     /\ lastCall.project_id \in DOMAIN projects
     /\ projects[lastCall.project_id].start_date # None
     /\ projects[lastCall.project_id].end_date # None)
    => /\ lastCall.result.status = "ok"
       /\ lastCall.result.impact_analysis.cost_difference = R(0)
       /\ lastCall.result.impact_analysis.assignment_difference = 0

\* An empty simulation of a project whose assignments cost something.
C10_Witness ==
    /\ lastCall.op = "simulate_scenario"
    /\ lastCall.changes = EmptyChanges
    /\ lastCall.result.status = "ok"
    /\ lastCall.result.current_forecast.assignments_count = 2
    /\ RGt(lastCall.result.current_forecast.total_estimated_cost, R(0))
    /\ lastCall.result.impact_analysis.cost_difference = R(0)

\* C11: simulate_scenario leaves the stored roles, staff, projects, rates,
\* assignments and monthly rows as they were, for every change set and
\* whether it returns a result or raises.
C11_SimulationReadOnly ==
    [][lastCall'.op = "simulate_scenario"
       => UNCHANGED <<roles, staff, projects, role_rates, assignments, monthly_allocations, templates, planning_exercises, planning_projects, planning_roles, ghost_staff>>]_vars

\* A simulation that modified the hours of a stored assignment has returned.
C11_Witness ==
    /\ lastCall.op = "simulate_scenario"
    /\ lastCall.result.status = "ok"
    /\ 1 \in DOMAIN lastCall.changes.modify_hours
    /\ 1 \in ProjectAssignments(lastCall.project_id)
    /\ assignments[1].hours_per_week # lastCall.changes.modify_hours[1]
    /\ lastCall.result.impact_analysis.cost_difference # R(0)

\* A request that C12 lists as invalid.
Faulty(data) ==
    \/ data.start_date = None \/ data.end_date = None
    \/ data.end_date <= data.start_date
    \/ /\ "allocation_percentage" \in data.present
       /\ (RGt(R(0), data.allocation_percentage) \/ RGt(data.allocation_percentage, R(100)))
    \/ "allocation_type" \in data.present /\ data.allocation_type \notin ALLOCATION_TYPES

C12_State == \A a \in DOMAIN assignments : assignments[a].end_date > assignments[a].start_date

C12_Step ==
    \A data \in AllocRequests \cup AllocUpdateRequests :
        (lastCall'.op \in {"create_assignment", "update_assignment"} /\ Faulty(data))
        => /\ create_assignment(data)
              => /\ assignments' = assignments /\ monthly_allocations' = monthly_allocations
                 /\ lastCall'.status \in {"ValidationError", "NotFoundError"}
                 /\ (data.staff_id \in DOMAIN staff /\ data.project_id \in DOMAIN projects)
                    => lastCall'.status = "ValidationError"
           /\ \A id \in 1..MaxAssignments :
                 update_assignment(id, data)
                 => /\ assignments' = assignments /\ monthly_allocations' = monthly_allocations
                    /\ lastCall'.status \in {"ValidationError", "NotFoundError"}
                    /\ (/\ id \in DOMAIN assignments
                        /\ data.staff_id \in DOMAIN staff /\ data.project_id \in DOMAIN projects)
                       => lastCall'.status = "ValidationError"

C13_MissingIdRaises ==
    /\ (lastCall.op = "calculate_project_staffing_needs" /\ lastCall.project_id \notin DOMAIN projects)
       => lastCall.result.status # "ok"
    /\ (/\ lastCall.op = "simulate_scenario"
        /\ \/ lastCall.project_id \notin DOMAIN projects
           \/ \E i \in DOMAIN lastCall.changes.add_assignments :
                 lastCall.changes.add_assignments[i].staff_id \notin DOMAIN staff)
       => lastCall.result.status # "ok"

AddMonths(d, k) ==
    LET m == MonthOf(d) + k
    IN  MonthStart(m) + Min(d - MonthStart(MonthOf(d)), MonthLengths[m] - 1)

\* get_role_rate walks parent_project until a rate or a project without
\* parent; on a cyclic chain holding no rate the recursion never ends.
RECURSIVE RateWalkEnds(_, _, _)
RateWalkEnds(p, role_id, fuel) ==
    IF <<p, role_id>> \in DOMAIN role_rates \/ parent_project(p) = None THEN TRUE
    ELSE IF fuel = 0 THEN FALSE
    ELSE RateWalkEnds(parent_project(p), role_id, fuel - 1)

\* The ghosts one template role adds, numbered from the next free id.
NewGhosts(project_id, start_date, end_date, tr, billable_rate, first_id) ==
    [g \in first_id..(first_id + tr.count - 1) |->
        [project_id |-> project_id, role_id |-> tr.role_id,
         name |-> <<roles[tr.role_id].name, "Placeholder", g - first_id + 1>>,
         internal_hourly_cost |-> roles[tr.role_id].hourly_cost,
         billable_rate |-> billable_rate,
         start_date |-> AddMonths(start_date, tr.start_month - 1),
         end_date |-> IF tr.end_month # None THEN AddMonths(start_date, tr.end_month) ELSE end_date,
         hours_per_week |-> tr.hours_per_week,
         replaced_by_staff_id |-> None]]

\* The loop over template.template_roles; rate_of[r] is the result of
\* project.get_role_rate(r) for the project just stored.
RECURSIVE GhostsFromRoles(_, _, _, _, _, _)
GhostsFromRoles(ghosts, project_id, start_date, end_date, trs, rate_of) ==
    IF trs = << >> THEN ghosts
    ELSE LET tr == Head(trs)
             billable_rate == IF rate_of[tr.role_id] # NoRateInfo THEN rate_of[tr.role_id].rate
                              ELSE roles[tr.role_id].default_billable_rate
         IN  GhostsFromRoles(ghosts @@ NewGhosts(project_id, start_date, end_date, tr, billable_rate,
                                                 NextId(DOMAIN ghosts)),
                             project_id, start_date, end_date, Tail(trs), rate_of)

\* project.get_role_rate(role_id) for the project just stored under id with
\* its auto-populated rates: its own rate, else the walk from its parent.
NewProjectRateWalkEnds(id, parent_project_id, role_id) ==
    \/ <<id, role_id>> \in DOMAIN AutoPopulatedRates(id)
    \/ /\ parent_project_id # id
       /\ parent_project_id \in DOMAIN projects => RateWalkEnds(parent_project_id, role_id, MaxProjects)

NewProjectRate(id, parent_project_id, role_id) ==
    IF <<id, role_id>> \in DOMAIN AutoPopulatedRates(id)
    THEN [rate |-> AutoPopulatedRates(id)[<<id, role_id>>], is_inherited |-> FALSE, source_project_id |-> id]
    ELSE IF parent_project_id \in DOMAIN projects /\ get_role_rate(parent_project_id, role_id) # NoRateInfo
    THEN [rate |-> get_role_rate(parent_project_id, role_id).rate, is_inherited |-> TRUE,
          source_project_id |-> get_role_rate(parent_project_id, role_id).source_project_id]
    ELSE NoRateInfo

\* POST /projects/from-template.  The project is stored as the request
\* names it: parent_project_id and is_folder are not validated.
create_project_from_template(data) ==
    LET status == IF data.template_id = None \/ data.start_date = None THEN "ValidationError"
                  ELSE IF data.template_id \notin DOMAIN templates THEN "NotFoundError"
                  ELSE "ok"
        id       == NextId(DOMAIN projects)
        template == templates[data.template_id]
        end_date == AddMonths(data.start_date, template.duration_months)
    IN  /\ id <= MaxProjects
        /\ UNCHANGED <<roles, staff, assignments, monthly_allocations, templates, planning_exercises, planning_projects, planning_roles>>
        /\ IF status = "ok"
           THEN /\ projects' = projects @@
                       (id :> [name |-> data.name, parent_project_id |-> data.parent_project_id,
                               is_folder |-> data.is_folder,
                               start_date |-> data.start_date, end_date |-> end_date])
                /\ role_rates' = role_rates @@ AutoPopulatedRates(id)
                /\ IF \A i \in DOMAIN template.roles :
                          NewProjectRateWalkEnds(id, data.parent_project_id, template.roles[i].role_id)
                   THEN /\ ghost_staff' =
                               GhostsFromRoles(ghost_staff, id, data.start_date, end_date, template.roles,
                                               [r \in DOMAIN roles |->
                                                   NewProjectRate(id, data.parent_project_id, r)])
                        /\ lastCall' = [op |-> "create_project_from_template", status |-> "ok"]
                   ELSE /\ ghost_staff' = ghost_staff
                        /\ lastCall' = [op |-> "create_project_from_template", status |-> "RecursionError"]
           ELSE /\ UNCHANGED <<projects, role_rates, ghost_staff>>
                /\ lastCall' = [op |-> "create_project_from_template", status |-> status]

\* (replace_ghost_staff_again: the replacement without its is_replaced check.)
replace_ghost_staff_again(ghost_id, data) ==
    LET status == IF ghost_id \notin DOMAIN ghost_staff THEN "NotFoundError"
                  ELSE IF data.staff_id = None THEN "ValidationError"
                  ELSE IF data.staff_id \notin DOMAIN staff THEN "NotFoundError"
                  ELSE "ok"
        ghost  == ghost_staff[ghost_id]
        id     == NextId(DOMAIN assignments)
    IN  /\ status = "ok" => id <= MaxAssignments
        /\ IF status = "ok"
           THEN /\ ghost_staff' = [ghost_staff EXCEPT ![ghost_id].replaced_by_staff_id = data.staff_id]
                /\ assignments' = assignments @@
                       (id :> [staff_id |-> data.staff_id, project_id |-> ghost.project_id,
                               start_date |-> ghost.start_date, end_date |-> ghost.end_date,
                               hours_per_week |-> ghost.hours_per_week,
                               role_on_project |-> roles[ghost.role_id].name,
                               allocation_type |-> ALLOCATION_FULL, allocation_percentage |-> R(100)])
           ELSE UNCHANGED <<ghost_staff, assignments>>
        /\ lastCall' = [op |-> "replace_ghost_staff", status |-> status]
        /\ UNCHANGED <<roles, staff, projects, role_rates, monthly_allocations, templates, planning_exercises, planning_projects, planning_roles>>

\* PUT /ghost-staff/<id>/replace
replace_ghost_staff(ghost_id, data) ==
    LET status == IF ghost_id \notin DOMAIN ghost_staff THEN "NotFoundError"
                  ELSE IF ghost_staff[ghost_id].replaced_by_staff_id # None THEN "ConflictError"
                  ELSE IF data.staff_id = None THEN "ValidationError"
                  ELSE IF data.staff_id \notin DOMAIN staff THEN "NotFoundError"
                  ELSE "ok"
        ghost  == ghost_staff[ghost_id]
        id     == NextId(DOMAIN assignments)
    IN  /\ status = "ok" => id <= MaxAssignments
        /\ IF status = "ok"
           THEN /\ ghost_staff' = [ghost_staff EXCEPT ![ghost_id].replaced_by_staff_id = data.staff_id]
                /\ assignments' = assignments @@
                       (id :> [staff_id |-> data.staff_id, project_id |-> ghost.project_id,
                               start_date |-> ghost.start_date, end_date |-> ghost.end_date,
                               hours_per_week |-> ghost.hours_per_week,
                               role_on_project |-> roles[ghost.role_id].name,
                               allocation_type |-> ALLOCATION_FULL, allocation_percentage |-> R(100)])
           ELSE UNCHANGED <<ghost_staff, assignments>>
        /\ lastCall' = [op |-> "replace_ghost_staff", status |-> status]
        /\ UNCHANGED <<roles, staff, projects, role_rates, monthly_allocations, templates, planning_exercises, planning_projects, planning_roles>>

(***************************************************************************)
(* Ghost specification: projects created from a template, their ghosts     *)
(* replaced by staff members                                               *)
(***************************************************************************)
TemplateRequest(template_id, parent_project_id, is_folder) ==
    [template_id |-> template_id, name |-> "P", start_date |-> 0,
     parent_project_id |-> parent_project_id, is_folder |-> is_folder]

GhostInit ==
    /\ roles = (1 :> [name |-> "R1", hourly_cost |-> 50, default_billable_rate |-> None, is_active |-> TRUE])
               @@ (2 :> [name |-> "R2", hourly_cost |-> 50, default_billable_rate |-> 70, is_active |-> TRUE])
    /\ staff = (1 :> [name |-> "S1", role_id |-> 1, internal_hourly_cost |-> 50])
               @@ (2 :> [name |-> "S2", role_id |-> 2, internal_hourly_cost |-> 60])
    /\ projects = << >>
    /\ role_rates = << >>
    /\ assignments = << >>
    /\ monthly_allocations = << >>
    /\ planning_exercises = << >>
    /\ planning_projects = << >>
    /\ planning_roles = << >>
    /\ templates = (1 :> [name |-> "T", duration_months |-> 2,
                          roles |-> <<[role_id |-> 2, count |-> 1, start_month |-> 1,
                                       end_month |-> None, hours_per_week |-> 40],
                                      [role_id |-> 1, count |-> 1, start_month |-> 2,
                                       end_month |-> 2, hours_per_week |-> 20]>>])
    /\ ghost_staff = << >>
    /\ lastCall = [op |-> "none"]

GhostCreateProject ==
    \E t \in {1, 2} : create_project_from_template(TemplateRequest(t, None, FALSE))

GhostReplace ==
    \E g \in DOMAIN ghost_staff \cup {NextId(DOMAIN ghost_staff)}, s \in {None, 1, 2, 3} :
        replace_ghost_staff(g, [staff_id |-> s])

GhostNext ==
    \/ GhostCreateProject
    \/ GhostReplace

SpecGhost == GhostInit /\ [][GhostNext]_vars

C15_State ==
    /\ Cardinality(DOMAIN assignments)
       = Cardinality({g \in DOMAIN ghost_staff : ghost_staff[g].replaced_by_staff_id # None})
    /\ \A g \in DOMAIN ghost_staff :
          ghost_staff[g].replaced_by_staff_id # None
          => \E a \in DOMAIN assignments :
                /\ assignments[a].staff_id = ghost_staff[g].replaced_by_staff_id
                /\ assignments[a].project_id = ghost_staff[g].project_id
                /\ assignments[a].start_date = ghost_staff[g].start_date
                /\ assignments[a].end_date = ghost_staff[g].end_date
                /\ assignments[a].hours_per_week = ghost_staff[g].hours_per_week
                /\ assignments[a].allocation_type = ALLOCATION_FULL

C15_Step ==
    /\ \A g \in DOMAIN ghost_staff :
          ghost_staff[g].replaced_by_staff_id # None
          => (g \in DOMAIN ghost_staff' /\ ghost_staff'[g] = ghost_staff[g])
    /\ \A g \in DOMAIN ghost_staff, s \in DOMAIN staff :
          replace_ghost_staff(g, [staff_id |-> s])
          => IF ghost_staff[g].replaced_by_staff_id = None
             THEN /\ lastCall'.status = "ok"
                  /\ ghost_staff'[g].replaced_by_staff_id = s
                  /\ Cardinality(DOMAIN assignments') = Cardinality(DOMAIN assignments) + 1
                  /\ \A a \in DOMAIN assignments : assignments'[a] = assignments[a]
             ELSE /\ lastCall'.status = "ConflictError"
                  /\ UNCHANGED <<roles, staff, projects, role_rates, assignments, monthly_allocations,
                                 templates, planning_exercises, planning_projects, planning_roles, ghost_staff>>

\* C15: replacing an unreplaced ghost sets replaced_by_staff_id and creates
\* exactly one assignment with the ghost's project, dates and hours and
\* allocation type full; replacing a replaced ghost is rejected with a
\* conflict and changes nothing; replaced_by_staff_id never changes once
\* set, and there is one assignment per replaced ghost.
C15_OneWayReplacement == [](C15_State) /\ [][C15_Step]_vars

\* A second replacement of a ghost was rejected with a conflict.
C15_Witness ==
    /\ lastCall.op = "replace_ghost_staff"
    /\ lastCall.status = "ConflictError"
    /\ \E g \in DOMAIN ghost_staff : ghost_staff[g].replaced_by_staff_id # None
    /\ Cardinality(DOMAIN assignments) = 1

(***************************************************************************)
(* routes: update_project and delete_project                               *)
(***************************************************************************)
\* The request body has name and status; parent_project_id and is_folder
\* are read with data.get for the validation and stored when present.
update_project(project_id, data) ==
    LET status == IF project_id \notin DOMAIN projects THEN "NotFoundError"
                  ELSE validate_project_data(
                           [data EXCEPT !.parent_project_id =
                                            IF "parent_project_id" \in data.present THEN @ ELSE None,
                                        !.is_folder = IF "is_folder" \in data.present THEN @ ELSE FALSE],
                           project_id)
    IN  /\ IF status = "ok"
           THEN projects' =
                    [projects EXCEPT ![project_id] =
                        [name |-> data.name,
                         parent_project_id |-> IF "parent_project_id" \in data.present
                                               THEN data.parent_project_id ELSE @.parent_project_id,
                         is_folder |-> IF "is_folder" \in data.present THEN data.is_folder ELSE @.is_folder,
                         start_date |-> data.start_date, end_date |-> data.end_date]]
           ELSE UNCHANGED projects
        /\ lastCall' = [op |-> "update_project", status |-> status]
        /\ UNCHANGED <<roles, staff, role_rates, assignments, monthly_allocations, templates, planning_exercises, planning_projects, planning_roles, ghost_staff>>

\* Deleting a project that still has ghost staff fails at the commit
\* (ghost_staff.project_id is not nullable) and is reported as a failed
\* database operation.
delete_project(project_id) ==
    LET status == IF project_id \notin DOMAIN projects THEN "NotFoundError"
                  ELSE IF \E a \in DOMAIN assignments : assignments[a].project_id = project_id
                      THEN "ConflictError"
                  ELSE IF sub_projects(project_id) # {} THEN "ConflictError"
                  ELSE IF \E g \in DOMAIN ghost_staff : ghost_staff[g].project_id = project_id
                      THEN "HBStaffingError"
                  ELSE "ok"
    IN  /\ IF status = "ok"
           THEN /\ projects' = [q \in DOMAIN projects \ {project_id} |-> projects[q]]
                /\ role_rates' = [k \in {j \in DOMAIN role_rates : j[1] # project_id} |-> role_rates[k]]
           ELSE UNCHANGED <<projects, role_rates>>
        /\ lastCall' = [op |-> "delete_project", status |-> status]
        /\ UNCHANGED <<roles, staff, assignments, monthly_allocations, templates, planning_exercises, planning_projects, planning_roles, ghost_staff>>

(***************************************************************************)
(* Hierarchy specification: projects created directly and from a template, *)
(* updated and deleted                                                     *)
(***************************************************************************)
HierInit ==
    /\ roles = (1 :> [name |-> "R1", hourly_cost |-> 50, default_billable_rate |-> None, is_active |-> TRUE])
    /\ staff = (1 :> [name |-> "S1", role_id |-> 1, internal_hourly_cost |-> 50])
    /\ projects = << >>
    /\ role_rates = << >>
    /\ assignments = << >>
    /\ monthly_allocations = << >>
    /\ planning_exercises = << >>
    /\ planning_projects = << >>
    /\ planning_roles = << >>
    /\ templates = (1 :> [name |-> "T", duration_months |-> 2, roles |-> << >>])
    /\ ghost_staff = << >>
    /\ lastCall = [op |-> "none"]

HierParents == {None, 1, 2}

HierCreate ==
    \E parent \in HierParents, is_folder \in BOOLEAN : create_project(ProjectRequest(parent, is_folder))

HierCreateFromTemplate ==
    \E parent \in HierParents, is_folder \in BOOLEAN :
        create_project_from_template(TemplateRequest(1, parent, is_folder))

HierUpdate ==
    \E p \in 1..MaxProjects, parent \in HierParents, is_folder \in BOOLEAN,
       present \in {{"parent_project_id", "is_folder"}, {}} :
        update_project(p, [name |-> "P", parent_project_id |-> parent, is_folder |-> is_folder,
                           start_date |-> None, end_date |-> None, present |-> present])

HierDelete == \E p \in 1..MaxProjects : delete_project(p)

HierNext ==
    \/ HierCreate
    \/ HierCreateFromTemplate
    \/ HierUpdate
    \/ HierDelete

SpecHier == HierInit /\ [][HierNext]_vars

\* The k-th ancestor of p by parent_project_id, None when the chain has ended.
RECURSIVE AncestorIdAt(_, _)
AncestorIdAt(p, k) ==
    IF k = 0 THEN p
    ELSE LET below == AncestorIdAt(p, k - 1)
         IN  IF below \in DOMAIN projects THEN projects[below].parent_project_id ELSE None

\* C16: the parent_project_id relation is a forest: no project is its own
\* ancestor.
C16_Forest ==
    \A p \in DOMAIN projects : \A k \in 1..Cardinality(DOMAIN projects) : AncestorIdAt(p, k) # p

\* C17: every project that is the parent of some project exists and is a folder.
C17_ParentsAreFolders ==
    \A p \in DOMAIN projects :
        projects[p].parent_project_id # None
        => /\ projects[p].parent_project_id \in DOMAIN projects
           /\ projects[projects[p].parent_project_id].is_folder

(***************************************************************************)
(* routes: role and staff requests                                         *)
(***************************************************************************)
\* The request body of a role has a name (never blank here), hourly_cost
\* and default_billable_rate.
validate_role_data(data, is_update, current_id) ==
    LET existing == {r \in DOMAIN roles : roles[r].name = data.name}
    IN  IF data.hourly_cost = None THEN "ValidationError"
        ELSE IF data.hourly_cost <= 0 THEN "ValidationError"
        ELSE IF data.default_billable_rate # None /\ data.default_billable_rate <= 0
            THEN "ValidationError"
        ELSE IF existing # {}
                /\ (~is_update
                    \/ (CHOOSE r \in existing : \A q \in existing : r <= q) # current_id)
            THEN "ConflictError"
        ELSE "ok"

validate_staff_data(data) ==
    IF None \in {data.role_id, data.internal_hourly_cost} THEN "ValidationError"
    ELSE IF data.internal_hourly_cost <= 0 THEN "ValidationError"
    ELSE IF data.role_id \notin DOMAIN roles THEN "NotFoundError"
    ELSE "ok"

create_role(data) ==
    LET status == validate_role_data(data, FALSE, None)
        id     == NextId(DOMAIN roles)
    IN  /\ id <= MaxRoles
        /\ IF status = "ok"
           THEN roles' = roles @@
                    (id :> [name |-> data.name, hourly_cost |-> data.hourly_cost,
                            default_billable_rate |-> data.default_billable_rate,
                            is_active |-> TRUE])
           ELSE UNCHANGED roles
        /\ lastCall' = [op |-> "create_role", status |-> status]
        /\ UNCHANGED <<staff, projects, role_rates, assignments, monthly_allocations, templates, planning_exercises, planning_projects, planning_roles, ghost_staff>>

update_role(role_id, data) ==
    LET status == IF role_id \notin DOMAIN roles THEN "NotFoundError"
                  ELSE validate_role_data(data, TRUE, role_id)
    IN  /\ IF status = "ok"
           THEN roles' = [roles EXCEPT ![role_id] =
                              [name |-> data.name, hourly_cost |-> data.hourly_cost,
                               default_billable_rate |-> data.default_billable_rate,
                               is_active |-> @.is_active]]
           ELSE UNCHANGED roles
        /\ lastCall' = [op |-> "update_role", status |-> status]
        /\ UNCHANGED <<staff, projects, role_rates, assignments, monthly_allocations, templates, planning_exercises, planning_projects, planning_roles, ghost_staff>>

\* (delete_role_unguarded: delete_role without the staff_members check.)
delete_role_unguarded(role_id) ==
    LET status == IF role_id \notin DOMAIN roles THEN "NotFoundError" ELSE "ok"
    IN  /\ IF status = "ok"
           THEN roles' = [r \in DOMAIN roles \ {role_id} |-> roles[r]]
           ELSE UNCHANGED roles
        /\ lastCall' = [op |-> "delete_role", status |-> status]
        /\ UNCHANGED <<staff, projects, role_rates, assignments, monthly_allocations, templates, planning_exercises, planning_projects, planning_roles, ghost_staff>>

\* Deleting a role that project rates, template roles or ghost staff still
\* name fails at the commit (their role_id is not nullable) and is reported
\* as a failed database operation.
delete_role(role_id) ==
    LET status == IF role_id \notin DOMAIN roles THEN "NotFoundError"
                  ELSE IF \E s \in DOMAIN staff : staff[s].role_id = role_id THEN "ConflictError"
                  ELSE IF \/ \E k \in DOMAIN role_rates : k[2] = role_id
                          \/ \E t \in DOMAIN templates :
                                 \E i \in DOMAIN templates[t].roles : templates[t].roles[i].role_id = role_id
                          \/ \E g \in DOMAIN ghost_staff : ghost_staff[g].role_id = role_id
                      THEN "HBStaffingError"
                  ELSE "ok"
    IN  /\ IF status = "ok"
           THEN roles' = [r \in DOMAIN roles \ {role_id} |-> roles[r]]
           ELSE UNCHANGED roles
        /\ lastCall' = [op |-> "delete_role", status |-> status]
        /\ UNCHANGED <<staff, projects, role_rates, assignments, monthly_allocations, templates, planning_exercises, planning_projects, planning_roles, ghost_staff>>

create_staff(data) ==
    LET status == validate_staff_data(data)
        id     == NextId(DOMAIN staff)
    IN  /\ id <= MaxStaff
        /\ IF status = "ok"
           THEN staff' = staff @@
                    (id :> [name |-> data.name, role_id |-> data.role_id,
                            internal_hourly_cost |-> data.internal_hourly_cost])
           ELSE UNCHANGED staff
        /\ lastCall' = [op |-> "create_staff", status |-> status]
        /\ UNCHANGED <<roles, projects, role_rates, assignments, monthly_allocations, templates, planning_exercises, planning_projects, planning_roles, ghost_staff>>

update_staff(staff_id, data) ==
    LET status == IF staff_id \notin DOMAIN staff THEN "NotFoundError"
                  ELSE validate_staff_data(data)
    IN  /\ IF status = "ok"
           THEN staff' = [staff EXCEPT ![staff_id] =
                              [name |-> data.name, role_id |-> data.role_id,
                               internal_hourly_cost |-> data.internal_hourly_cost]]
           ELSE UNCHANGED staff
        /\ lastCall' = [op |-> "update_staff", status |-> status]
        /\ UNCHANGED <<roles, projects, role_rates, assignments, monthly_allocations, templates, planning_exercises, planning_projects, planning_roles, ghost_staff>>

\* Deleting a staff member clears replaced_by_staff_id of the ghost staff
\* that were replaced by them (the replaced_ghosts backref has no cascade).
delete_staff(staff_id) ==
    LET status == IF staff_id \notin DOMAIN staff THEN "NotFoundError"
                  ELSE IF \E a \in DOMAIN assignments : assignments[a].staff_id = staff_id
                      THEN "ConflictError"
                  ELSE "ok"
    IN  /\ IF status = "ok"
           THEN /\ staff' = [s \in DOMAIN staff \ {staff_id} |-> staff[s]]
                /\ ghost_staff' =
                       [g \in DOMAIN ghost_staff |->
                           IF ghost_staff[g].replaced_by_staff_id = staff_id
                           THEN [ghost_staff[g] EXCEPT !.replaced_by_staff_id = None]
                           ELSE ghost_staff[g]]
           ELSE UNCHANGED <<staff, ghost_staff>>
        /\ lastCall' = [op |-> "delete_staff", status |-> status]
        /\ UNCHANGED <<roles, projects, role_rates, assignments, monthly_allocations, templates, planning_exercises, planning_projects, planning_roles>>

(***************************************************************************)
(* Reference specification: roles, staff, projects and assignments are     *)
(* created, updated and deleted, starting from an empty database           *)
(***************************************************************************)
RefInit ==
    /\ roles = << >>
    /\ staff = << >>
    /\ projects = << >>
    /\ role_rates = << >>
    /\ assignments = << >>
    /\ monthly_allocations = << >>
    /\ planning_exercises = << >>
    /\ planning_projects = << >>
    /\ planning_roles = << >>
    /\ templates = << >>
    /\ ghost_staff = << >>
    /\ lastCall = [op |-> "none"]

\* Two role names and a body whose hourly_cost is not positive.
RefRoleRequests ==
    {[name |-> "R1", hourly_cost |-> 50, default_billable_rate |-> None],
     [name |-> "R2", hourly_cost |-> 50, default_billable_rate |-> None],
     [name |-> "R1", hourly_cost |-> 0, default_billable_rate |-> None]}

RefStaffRequests ==
    {[name |-> "S", role_id |-> r, internal_hourly_cost |-> 50] : r \in 1..MaxRoles}

RefProjectRequests == {ProjectRequest(None, TRUE), ProjectRequest(1, FALSE)}

RefAssignmentRequests ==
    {[AssignmentRequest(s, <<0, 9>>, KindFull) EXCEPT !.project_id = p] :
        s \in 1..MaxStaff, p \in 1..2}
    \cup {AssignmentRequest(1, <<9, 9>>, KindFull)}

RefCreateRole == \E data \in RefRoleRequests : create_role(data)

RefUpdateRole == \E r \in 1..MaxRoles, data \in RefRoleRequests : update_role(r, data)

RefDeleteRole == \E r \in 1..MaxRoles : delete_role(r)

RefCreateStaff == \E data \in RefStaffRequests : create_staff(data)

RefUpdateStaff == \E s \in 1..MaxStaff, data \in RefStaffRequests : update_staff(s, data)

RefDeleteStaff == \E s \in 1..MaxStaff : delete_staff(s)

RefCreateProject == \E data \in RefProjectRequests : create_project(data)

RefUpdateProject ==
    \E p \in 1..MaxProjects, data \in RefProjectRequests :
        update_project(p, [name |-> data.name, parent_project_id |-> data.parent_project_id,
                           is_folder |-> data.is_folder, start_date |-> None, end_date |-> None,
                           present |-> {"parent_project_id", "is_folder"}])

RefDeleteProject == \E p \in 1..MaxProjects : delete_project(p)

RefCreateAssignment == \E data \in RefAssignmentRequests : create_assignment(data)

RefUpdateAssignment ==
    \E a \in 1..MaxAssignments, data \in RefAssignmentRequests : update_assignment(a, data)

RefDeleteAssignment == \E a \in 1..MaxAssignments : delete_assignment(a)

RefNext ==
    \/ RefCreateRole
    \/ RefUpdateRole
    \/ RefDeleteRole
    \/ RefCreateStaff
    \/ RefUpdateStaff
    \/ RefDeleteStaff
    \/ RefCreateProject
    \/ RefUpdateProject
    \/ RefDeleteProject
    \/ RefCreateAssignment
    \/ RefUpdateAssignment
    \/ RefDeleteAssignment

SpecRef == RefInit /\ [][RefNext]_vars

C18_State ==
    /\ \A s \in DOMAIN staff : staff[s].role_id \in DOMAIN roles
    /\ \A a \in DOMAIN assignments :
           /\ assignments[a].staff_id \in DOMAIN staff
           /\ assignments[a].project_id \in DOMAIN projects

Persisted == <<roles, staff, projects, role_rates, assignments, monthly_allocations, templates, planning_exercises, planning_projects, planning_roles, ghost_staff>>

C18_Step ==
    /\ \A r \in DOMAIN roles :
           (delete_role(r) /\ \E s \in DOMAIN staff : staff[s].role_id = r)
           => lastCall'.status = "ConflictError" /\ UNCHANGED Persisted
    /\ \A s \in DOMAIN staff :
           (delete_staff(s) /\ \E a \in DOMAIN assignments : assignments[a].staff_id = s)
           => lastCall'.status = "ConflictError" /\ UNCHANGED Persisted
    /\ \A p \in DOMAIN projects :
           (delete_project(p)
            /\ (\/ \E a \in DOMAIN assignments : assignments[a].project_id = p
                \/ \E q \in DOMAIN projects : projects[q].parent_project_id = p))
           => lastCall'.status = "ConflictError" /\ UNCHANGED Persisted

\* C18: after any sequence of create, update and delete requests on roles,
\* staff, projects and assignments every staff member names a stored role
\* and every assignment a stored staff member and a stored project; a
\* delete_role of a role some staff member holds, a delete_staff of a staff
\* member with assignments and a delete_project of a project with
\* assignments or sub-projects answer ConflictError and change nothing.
C18_ReferentialIntegrity == []C18_State /\ [][C18_Step]_vars

\* A refused delete_role while a staff member with an assignment on a
\* stored project holds the role.
C18_Witness ==
    /\ lastCall.op = "delete_role" /\ lastCall.status = "ConflictError"
    /\ \E a \in DOMAIN assignments :
           /\ assignments[a].staff_id \in DOMAIN staff
           /\ assignments[a].project_id \in DOMAIN projects
           /\ staff[assignments[a].staff_id].role_id \in DOMAIN roles

(***************************************************************************)
(* routes: update_assignment_monthly_allocations                           *)
(***************************************************************************)
\* The loop over data['allocations'], from the rows stored so far: the
\* rows after it, or the error that ends it.  An entry without a month has
\* month None.  The query for the existing row flushes the rows added by
\* the earlier entries, so they are found too.
RECURSIVE ProcessAllocations(_, _, _)
ProcessAllocations(rows, assignment_id, allocs) ==
    IF allocs = <<>> THEN [status |-> "ok", rows |-> rows]
    ELSE LET alloc_data     == Head(allocs)
             month_date     == MonthStart(MonthOf(alloc_data.month))
             allocation_pct == alloc_data.allocation_percentage
             existing       == {i \in DOMAIN rows : /\ rows[i].assignment_id = assignment_id
                                                    /\ rows[i].month = month_date}
         IN  IF alloc_data.month = None THEN [status |-> "ValidationError", rows |-> rows]
             ELSE IF RGt(R(0), allocation_pct) \/ RGt(allocation_pct, R(100))
                 THEN [status |-> "ValidationError", rows |-> rows]
             ELSE IF existing # {}
                 THEN ProcessAllocations(
                          [rows EXCEPT ![CHOOSE i \in existing : \A j \in existing : i <= j]
                                            .allocation_percentage = allocation_pct],
                          assignment_id, Tail(allocs))
             ELSE ProcessAllocations(
                      rows @@ (NextId(DOMAIN rows) :>
                                 [assignment_id |-> assignment_id, month |-> month_date,
                                  allocation_percentage |-> allocation_pct]),
                      assignment_id, Tail(allocs))

\* data.has_allocations says whether the body has the 'allocations' key.
\* Nothing is committed when the loop raises.
update_assignment_monthly_allocations(assignment_id, data) ==
    LET processed == ProcessAllocations(monthly_allocations, assignment_id, data.allocations)
        status    == IF assignment_id \notin DOMAIN assignments THEN "NotFoundError"
                     ELSE IF ~data.has_allocations THEN "ValidationError"
                     ELSE processed.status
    IN  /\ IF status = "ok"
           THEN /\ assignments' = [assignments EXCEPT
                                      ![assignment_id].allocation_type = ALLOCATION_PERCENTAGE_MONTHLY]
                /\ monthly_allocations' = processed.rows
           ELSE UNCHANGED <<assignments, monthly_allocations>>
        /\ lastCall' = [op |-> "update_assignment_monthly_allocations", status |-> status]
        /\ UNCHANGED <<roles, staff, projects, role_rates, templates, planning_exercises, planning_projects, planning_roles, ghost_staff>>

\* Assignment.get_allocation_for_period called on a stored assignment.
GetAllocationForPeriod(assignment_id, period_start, period_end) ==
    /\ assignment_id \in DOMAIN assignments
    /\ lastCall' = [op |-> "get_allocation_for_period", assignment_id |-> assignment_id,
                    period_start |-> period_start, period_end |-> period_end,
                    result |-> get_allocation_for_period(assignments, assignment_id, period_start, period_end)]
    /\ UNCHANGED <<roles, staff, projects, role_rates, assignments, monthly_allocations, templates, planning_exercises, planning_projects, planning_roles, ghost_staff>>

(***************************************************************************)
(* Monthly specification: assignments created with monthly allocations,    *)
(* their monthly allocations updated, and the allocation of a period read  *)
(***************************************************************************)
\* Rows for 15 January at 50, for 1 February at 150, and twice for 1 January.
KindMonthlyMidMonth ==
    [KindMonthly EXCEPT !.monthly_allocations = <<[month |-> 14, allocation_percentage |-> R(50)]>>]

KindMonthlyOver ==
    [KindMonthly EXCEPT !.monthly_allocations = <<[month |-> 31, allocation_percentage |-> R(150)]>>]

KindMonthlyTwice ==
    [KindMonthly EXCEPT !.monthly_allocations = <<[month |-> 0, allocation_percentage |-> R(50)],
                                                   [month |-> 0, allocation_percentage |-> R(75)]>>]

MonthlyRequests ==
    {AssignmentRequest(1, <<0, 59>>, k) :
        k \in {KindFull, KindMonthly, KindMonthlyMidMonth, KindMonthlyOver, KindMonthlyTwice}}

\* Bodies of update_assignment_monthly_allocations: no 'allocations' key,
\* an empty list, 10 January at 50 with 15 February at 100, an entry
\* without a month after one for March, and February at 150.
MonthlyUpdates ==
    {[has_allocations |-> FALSE, allocations |-> <<>>],
     [has_allocations |-> TRUE, allocations |-> <<>>],
     [has_allocations |-> TRUE,
      allocations |-> <<[month |-> 9, allocation_percentage |-> R(50)],
                        [month |-> 45, allocation_percentage |-> R(100)]>>],
     [has_allocations |-> TRUE,
      allocations |-> <<[month |-> 60, allocation_percentage |-> R(10)],
                        [month |-> None, allocation_percentage |-> R(10)]>>],
     [has_allocations |-> TRUE, allocations |-> <<[month |-> 31, allocation_percentage |-> R(150)]>>]}

\* Periods: the assignment's own dates, January and February, half of
\* January with February, ten days of February, and a period without days.
MonthlyPeriods == {<<None, None>>, <<0, 59>>, <<16, 59>>, <<40, 49>>, <<20, 10>>}

MonthlyInit ==
    /\ roles = (1 :> [name |-> "R1", hourly_cost |-> 50, default_billable_rate |-> None, is_active |-> TRUE])
    /\ staff = (1 :> [name |-> "S1", role_id |-> 1, internal_hourly_cost |-> 50])
    /\ projects = (1 :> [name |-> "P1", parent_project_id |-> None, is_folder |-> FALSE,
                         start_date |-> 0, end_date |-> 59])
    /\ role_rates = << >>
    /\ assignments = << >>
    /\ monthly_allocations = << >>
    /\ planning_exercises = << >>
    /\ planning_projects = << >>
    /\ planning_roles = << >>
    /\ templates = << >>
    /\ ghost_staff = << >>
    /\ lastCall = [op |-> "none"]

MonthlyCreate == NoQueryYet /\ \E data \in MonthlyRequests : create_assignment(data)

MonthlyUpdate ==
    /\ NoQueryYet
    /\ \E a \in 1..MaxAssignments, data \in MonthlyUpdates :
           update_assignment_monthly_allocations(a, data)

MonthlyGet ==
    /\ NoQueryYet
    /\ \E a \in 1..MaxAssignments, period \in MonthlyPeriods :
           GetAllocationForPeriod(a, period[1], period[2])

MonthlyNext ==
    \/ MonthlyCreate
    \/ MonthlyUpdate
    \/ MonthlyGet

SpecMonthly == MonthlyInit /\ [][MonthlyNext]_vars

\* C19: every stored monthly allocation row has its month on the first day
\* of a calendar month and a percentage within [0, 100], and no two rows
\* have the same assignment and month.
C19_MonthlyRowsWellFormed ==
    /\ \A i \in DOMAIN monthly_allocations :
           /\ monthly_allocations[i].month = MonthStart(MonthOf(monthly_allocations[i].month))
           /\ ~RGt(R(0), monthly_allocations[i].allocation_percentage)
           /\ ~RGt(monthly_allocations[i].allocation_percentage, R(100))
    /\ \A i, j \in DOMAIN monthly_allocations :
           (/\ monthly_allocations[i].assignment_id = monthly_allocations[j].assignment_id
            /\ monthly_allocations[i].month = monthly_allocations[j].month)
           => i = j

\* The months with a day in ps..pe, the rows of assignment a in month m,
\* and the percentages that count for the period: those of the rows in its
\* months, and 100 when one of its months has no row.
MonthsOfPeriod(ps, pe) == {MonthOf(d) : d \in ps..pe}

RowsInMonth(a, m) == {i \in MonthlyRowsOf(a) : MonthOf(monthly_allocations[i].month) = m}

PercentagesInvolved(a, ps, pe) ==
    {monthly_allocations[i].allocation_percentage :
        i \in UNION {RowsInMonth(a, m) : m \in MonthsOfPeriod(ps, pe)}}
    \cup (IF \E m \in MonthsOfPeriod(ps, pe) : RowsInMonth(a, m) = {} THEN {R(100)} ELSE {})

\* The percentage of month m when at most one row of a is stored for it.
StoredPercentage(a, m) ==
    IF RowsInMonth(a, m) = {} THEN R(100)
    ELSE monthly_allocations[CHOOSE i \in RowsInMonth(a, m) : TRUE].allocation_percentage

\* The sum, over the days of ps..pe, of the percentage of the day's month:
\* each month of the period counts once for each of its days in the period.
DaySum(a, ps, pe) ==
    RSum([m \in MonthsOfPeriod(ps, pe) |->
             RMul(R(Cardinality({d \in ps..pe : MonthOf(d) = m})), StoredPercentage(a, m))])

\* C20: for a percentage_monthly assignment the allocation of a period is
\* the average, over the days of the period, of the percentage stored for
\* the month of the day (100 where no row is stored), and 100 when the
\* period has no days; it lies between the smallest and the largest of the
\* month percentages involved, and strictly between 50 and 100 when the
\* period covers one month at 50 and one at 100.
C20_DayWeightedAverage ==
    (/\ lastCall.op = "get_allocation_for_period"
     /\ assignments[lastCall.assignment_id].allocation_type = ALLOCATION_PERCENTAGE_MONTHLY)
    => LET a      == lastCall.assignment_id
           ps     == IF lastCall.period_start = None THEN assignments[a].start_date
                     ELSE lastCall.period_start
           pe     == IF lastCall.period_end = None THEN assignments[a].end_date
                     ELSE lastCall.period_end
           result == lastCall.result
           months == MonthsOfPeriod(ps, pe)
       IN  /\ pe < ps => result = R(100)
           /\ (pe >= ps /\ \A m \in months : Cardinality(RowsInMonth(a, m)) <= 1)
              => result = RDiv(DaySum(a, ps, pe), pe - ps + 1)
           /\ pe >= ps
              => \E lo, hi \in PercentagesInvolved(a, ps, pe) : ~RGt(lo, result) /\ ~RGt(result, hi)
           /\ (/\ Cardinality(months) = 2
               /\ \A m \in months : Cardinality(RowsInMonth(a, m)) <= 1
               /\ {StoredPercentage(a, m) : m \in months} = {R(50), R(100)})
              => RGt(result, R(50)) /\ RGt(R(100), result)

\* Half of January at 50 and all of February at 100 give 3650 / 44.
C20_Witness ==
    /\ lastCall.op = "get_allocation_for_period"
    /\ assignments[lastCall.assignment_id].allocation_type = ALLOCATION_PERCENTAGE_MONTHLY
    /\ lastCall.period_start = 16 /\ lastCall.period_end = 59
    /\ StoredPercentage(lastCall.assignment_id, 1) = R(50)
    /\ StoredPercentage(lastCall.assignment_id, 2) = R(100)
    /\ Cardinality(RowsInMonth(lastCall.assignment_id, 2)) = 1
    /\ lastCall.result = <<1825, 22>>

\* C21: the hours of a whole assignment used for its costs count its days
\* inclusively: total_hours equals overlap_days(start_date, end_date,
\* start_date, end_date) / 7 * hours_per_week for every stored assignment.
C21_TotalHoursInclusive ==
    \A a \in DOMAIN assignments :
        total_hours(a) =
            RMul(Norm(calculate_date_range_overlap(assignments[a].start_date, assignments[a].end_date,
                                                   assignments[a].start_date, assignments[a].end_date), 7),
                 R(assignments[a].hours_per_week))

(***************************************************************************)
(* engine.py: get_staff_allocation_in_period, suggest_staff_for_role and   *)
(* flag_new_hire_needs.  Staff rows carry availability_start,              *)
(* availability_end and skills here.                                       *)
(***************************************************************************)
\* The default of suggest_staff_for_role's max_suggestions parameter.
max_suggestions == 10

RMin(a, b) == IF RGt(a, b) THEN b ELSE a

\* The result for the assignments found (their ids are its 'assignments')
\* and the sum of their allocations in the period.
AllocationInfo(found, total_allocation) ==
    IF found = {}
    THEN [total_allocation |-> R(0), raw_total_allocation |-> R(0), assignments |-> {},
          available_allocation |-> R(100)]
    ELSE [total_allocation |-> RMin(total_allocation, R(100)),
          raw_total_allocation |-> total_allocation,
          assignments |-> found,
          available_allocation |-> RMax(R(0), RSub(R(100), total_allocation))]

get_staff_allocation_in_period(staff_id, period_start, period_end) ==
    AllocationInfo(OverlappingAssignments(assignments, staff_id, period_start, period_end),
                   RSum([a \in OverlappingAssignments(assignments, staff_id, period_start, period_end) |->
                            get_allocation_for_period(assignments, a, period_start, period_end)]))

\* Factor 2 of the match score, from the end dates of the assignments in
\* allocation_info (those that overlap the period) that are not after
\* start_date.
AlignmentTier(relevant_end_dates, start_date, closest_end) ==
    IF relevant_end_dates = {} THEN 0
    ELSE IF start_date - closest_end <= 0 THEN 30
    ELSE IF start_date - closest_end <= 7 THEN 25
    ELSE IF start_date - closest_end <= 14 THEN 20
    ELSE IF start_date - closest_end <= 30 THEN 15
    ELSE 10

SetMax(S) == IF S = {} THEN None ELSE CHOOSE d \in S : \A x \in S : x <= d

alignment_score(found, start_date) ==
    IF found # {}
    THEN AlignmentTier({assignments[a].end_date : a \in {b \in found : assignments[b].end_date <= start_date}},
                       start_date,
                       SetMax({assignments[a].end_date : a \in
                                  {b \in found : assignments[b].end_date <= start_date}}))
    ELSE 25

\* Factor 3: the assignments of the staff member that end within the year
\* before today.
experience_score(staff_id, today) ==
    Min(Cardinality({a \in DOMAIN assignments :
                        /\ assignments[a].staff_id = staff_id
                        /\ assignments[a].end_date >= today - 365}) * 5, 20)

\* The entry appended to suggestions for staff member s, from the result
\* of get_staff_allocation_in_period and the four factors of the score.
SuggestionFrom(s, allocation_info, alignment, other_scores) ==
    [staff_id |-> s,
     alignment_score |-> alignment,
     match_score |-> Round1(RAdd(RMul(RDiv(allocation_info.available_allocation, 100), R(40)),
                                 R(alignment + other_scores))),
     current_allocation |-> allocation_info.raw_total_allocation,
     available_allocation |-> allocation_info.available_allocation]

Suggestion(s, start_date, end_date, today) ==
    SuggestionFrom(s, get_staff_allocation_in_period(s, start_date, end_date),
                   alignment_score(OverlappingAssignments(assignments, s, start_date, end_date), start_date),
                   experience_score(s, today) + (IF staff[s].skills # {} THEN 10 ELSE 5))

\* The staff members of the role that pass the availability dates and have
\* the allocation asked for left in the period, each with its entry.
Suggestions(role_id, start_date, end_date, allocation_percentage, today) ==
    LET passing == {s \in DOMAIN staff :
                       /\ staff[s].role_id = role_id
                       /\ ~(staff[s].availability_end # None /\ staff[s].availability_end < start_date)
                       /\ ~(staff[s].availability_start # None /\ staff[s].availability_start > end_date)}
        entries == [s \in passing |-> Suggestion(s, start_date, end_date, today)]
    IN  [s \in {t \in passing : ~RGt(R(allocation_percentage), entries[t].available_allocation)}
            |-> entries[s]]

\* suggestions.sort(key = match_score, reverse = True): a stable sort of the
\* suggestions, which were appended in the order of the staff ids.  The
\* k-th suggestion is the one with k - 1 suggestions before it.
SortByScore(sug) ==
    [k \in 1..Cardinality(DOMAIN sug) |->
        sug[CHOOSE s \in DOMAIN sug :
                Cardinality({t \in DOMAIN sug :
                                \/ RGt(sug[t].match_score, sug[s].match_score)
                                \/ (sug[t].match_score = sug[s].match_score /\ t < s)}) = k - 1]]

\* suggestions[:max_suggestions]
KeepSuggestions(sorted) ==
    [k \in 1..Min(Cardinality(DOMAIN sorted), max_suggestions) |-> sorted[k]]

SuggestResult(role_id, sug) ==
    IF role_id \notin DOMAIN roles THEN [status |-> "ValueError"]
    ELSE [status |-> "ok",
          suggestions |-> KeepSuggestions(SortByScore(sug)),
          total_candidates |-> Cardinality({s \in DOMAIN staff : staff[s].role_id = role_id}),
          qualified_candidates |-> Cardinality(DOMAIN sug)]

suggest_staff_for_role(role_id, start_date, end_date, allocation_percentage, today) ==
    SuggestResult(role_id, Suggestions(role_id, start_date, end_date, allocation_percentage, today))

\* The result of flag_new_hire_needs from the suggestions it asked for and
\* the number of them that qualify; the cost estimate and the
\* recommendation texts are left out.
FlagResult(suggestions, qualified_count, required_count) ==
    [status |-> "ok",
     total_staff_with_role |-> suggestions.total_candidates,
     qualified_available |-> qualified_count,
     gap |-> Max(required_count - qualified_count, 0),
     needs_new_hire |-> required_count - qualified_count > 0,
     new_hire_count |-> Max(required_count - qualified_count, 0)]

QualifiedCount(suggestions, allocation_percentage) ==
    Cardinality({i \in DOMAIN suggestions.suggestions :
                    ~RGt(R(allocation_percentage), suggestions.suggestions[i].available_allocation)})

FlagFrom(suggestions, required_count, allocation_percentage) ==
    FlagResult(suggestions, QualifiedCount(suggestions, allocation_percentage), required_count)

flag_new_hire_needs(role_id, start_date, end_date, required_count, allocation_percentage, today) ==
    IF role_id \notin DOMAIN roles THEN [status |-> "ValueError"]
    ELSE FlagFrom(suggest_staff_for_role(role_id, start_date, end_date, allocation_percentage, today),
                  required_count, allocation_percentage)

SuggestStaffForRole(role_id, start_date, end_date, allocation_percentage, today) ==
    /\ lastCall' = [op |-> "suggest_staff_for_role", role_id |-> role_id,
                    start_date |-> start_date, end_date |-> end_date,
                    allocation_percentage |-> allocation_percentage, today |-> today,
                    result |-> suggest_staff_for_role(role_id, start_date, end_date,
                                                      allocation_percentage, today)]
    /\ UNCHANGED <<roles, staff, projects, role_rates, assignments, monthly_allocations, templates, planning_exercises, planning_projects, planning_roles, ghost_staff>>

FlagNewHireNeeds(role_id, start_date, end_date, required_count, allocation_percentage, today) ==
    /\ lastCall' = [op |-> "flag_new_hire_needs", role_id |-> role_id,
                    start_date |-> start_date, end_date |-> end_date,
                    required_count |-> required_count,
                    allocation_percentage |-> allocation_percentage,
                    result |-> flag_new_hire_needs(role_id, start_date, end_date, required_count,
                                                   allocation_percentage, today)]
    /\ UNCHANGED <<roles, staff, projects, role_rates, assignments, monthly_allocations, templates, planning_exercises, planning_projects, planning_roles, ghost_staff>>

(***************************************************************************)
(* Suggestion specification: twelve staff members of one role, eleven of   *)
(* them available throughout and one until 6 January; assignments are      *)
(* created for the first two and suggestions are asked for 21 January to   *)
(* 10 February.                                                            *)
(***************************************************************************)
SuggestStaffCount == 12

SuggestInit ==
    /\ roles = (1 :> [name |-> "R1", hourly_cost |-> 50, default_billable_rate |-> None, is_active |-> TRUE])
               @@ (2 :> [name |-> "R2", hourly_cost |-> 60, default_billable_rate |-> None, is_active |-> TRUE])
    /\ staff = [s \in 1..SuggestStaffCount |->
                   [name |-> "S", role_id |-> 1, internal_hourly_cost |-> 50,
                    availability_start |-> None,
                    availability_end |-> IF s = SuggestStaffCount THEN 5 ELSE None,
                    skills |-> IF s = 2 THEN {"cad"} ELSE {}]]
    /\ projects = (1 :> [name |-> "P1", parent_project_id |-> None, is_folder |-> FALSE,
                         start_date |-> 0, end_date |-> 59])
    /\ role_rates = << >>
    /\ assignments = << >>
    /\ monthly_allocations = << >>
    /\ planning_exercises = << >>
    /\ planning_projects = << >>
    /\ planning_roles = << >>
    /\ templates = << >>
    /\ ghost_staff = << >>
    /\ lastCall = [op |-> "none"]

\* Assignments that end 11 days and one day before 21 January, on it, and
\* after it (at 50 percent and in full).
SuggestRequests ==
    {AssignmentRequest(s, r, KindFull) : s \in {1, 2}, r \in {<<0, 9>>, <<0, 19>>, <<0, 20>>}}
    \cup {AssignmentRequest(1, <<10, 30>>, k) : k \in {KindHalf, KindFull}}

SuggestCreate == NoQueryYet /\ \E data \in SuggestRequests : create_assignment(data)

SuggestStaff ==
    /\ NoQueryYet
    /\ \E role_id \in {1, 2, 3}, pct \in {50, 100}, today \in {59, 480} :
           SuggestStaffForRole(role_id, 20, 40, pct, today)

SuggestFlag ==
    /\ NoQueryYet
    /\ \E role_id \in {1, 3}, required_count \in {1, 10, 11, 12}, pct \in {50, 100} :
           FlagNewHireNeeds(role_id, 20, 40, required_count, pct, 59)

SuggestNext ==
    \/ SuggestCreate
    \/ SuggestStaff
    \/ SuggestFlag

SpecSuggest == SuggestInit /\ [][SuggestNext]_vars

\* The days between the end of the staff member's nearest assignment ending
\* on or before start_date and start_date; None when there is none.
PriorGap(staff_id, start_date) ==
    LET ends == {assignments[a].end_date : a \in
                    {b \in DOMAIN assignments : /\ assignments[b].staff_id = staff_id
                                                /\ assignments[b].end_date <= start_date}}
    IN  IF ends = {} THEN None
        ELSE start_date - (CHOOSE d \in ends : \A x \in ends : x <= d)

\* C22: the schedule-gap part of a suggested candidate's match score is 30
\* when the nearest prior assignment ends on the requested start, 25 when
\* it ends 1 to 7 days before, 20 for 8 to 14 days, 15 for 15 to 30 days,
\* 10 for more, and 25 for a candidate without any assignment.
C22_GapTiers ==
    (lastCall.op = "suggest_staff_for_role" /\ lastCall.result.status = "ok")
    => \A i \in DOMAIN lastCall.result.suggestions :
           LET sug == lastCall.result.suggestions[i]
               gap == PriorGap(sug.staff_id, lastCall.start_date)
           IN  IF \A a \in DOMAIN assignments : assignments[a].staff_id # sug.staff_id
               THEN sug.alignment_score = 25
               ELSE gap # None
                    => sug.alignment_score =
                           (IF gap = 0 THEN 30 ELSE IF gap <= 7 THEN 25 ELSE IF gap <= 14 THEN 20
                            ELSE IF gap <= 30 THEN 15 ELSE 10)

\* The staff members holding the role who pass the availability window and
\* whose headroom, 100 minus their combined allocation in the period, is at
\* least pct.
QualifiedStaff(role_id, start_date, end_date, pct) ==
    {s \in DOMAIN staff :
        /\ staff[s].role_id = role_id
        /\ staff[s].availability_end = None \/ staff[s].availability_end >= start_date
        /\ staff[s].availability_start = None \/ staff[s].availability_start <= end_date
        /\ LET combined == RSum([a \in OverlappingAssignments(assignments, s, start_date, end_date) |->
                                    get_allocation_for_period(assignments, a, start_date, end_date)])
           IN  ~RGt(R(pct), RSub(R(100), combined))}

\* C23: flag_new_hire_needs reports new_hire_count = max(0, required_count - Q)
\* and needs_new_hire = (required_count > Q), Q being the number of
\* qualified staff members, however many there are.
C23_NewHireGap ==
    (lastCall.op = "flag_new_hire_needs" /\ lastCall.result.status = "ok")
    => LET Q == Cardinality(QualifiedStaff(lastCall.role_id, lastCall.start_date, lastCall.end_date,
                                            lastCall.allocation_percentage))
       IN  /\ lastCall.result.new_hire_count = Max(0, lastCall.required_count - Q)
           /\ lastCall.result.needs_new_hire = (lastCall.required_count > Q)

(***************************************************************************)
(* engine: planning coverage analysis                                      *)
(***************************************************************************)

\* Python floats of the coverage analysis (IEEE-754 doubles, round to nearest
\* even).  A double x near a multiple of 1/100 is written <<q, e>> with
\* x = (q + e / 2^59) / 100, which is exact for every double in [2^-7, 64)
\* because 100 * x * 2^59 is an integer there; integer percentages and counts
\* keep q and e small integers.
RECURSIVE Pow2(_)
Pow2(n) == IF n = 0 THEN 1 ELSE 2 * Pow2(n - 1)

RECURSIVE Pow2Mod200(_)
Pow2Mod200(n) == IF n = 0 THEN 1 ELSE (2 * Pow2Mod200(n - 1)) % 200

\* x >= 2^E
AtLeastPow2(x, E) ==
    IF E >= 0
    THEN x[1] > 100 * Pow2(E) \/ (x[1] = 100 * Pow2(E) /\ x[2] >= 0)
    ELSE x[1] * Pow2(-E) > 100 \/ (x[1] * Pow2(-E) = 100 /\ x[2] >= 0)

\* The binary exponent of a positive real in [2^-7, 64).
Exponent(x) == CHOOSE E \in (-7)..5 : AtLeastPow2(x, E) /\ ~AtLeastPow2(x, E + 1)

\* Nearest double to the real <<q, e>>, ties to the even significand.  In
\* units of 1 / (100 * 2^59) a unit in the last place of the binade E is
\* 100 * 2^(7+E); the real modulo two such units follows from q * 2^(52-E)
\* modulo 200.
RoundTo(x, ulp, twice) ==
    IF 2 * (twice % ulp) < ulp \/ (2 * (twice % ulp) = ulp /\ twice < ulp)
    THEN <<x[1], x[2] - (twice % ulp)>>
    ELSE <<x[1], x[2] - (twice % ulp) + ulp>>

RoundInBinade(x, E) ==
    RoundTo(x, 100 * Pow2(7 + E),
            (Pow2(7 + E) * ((x[1] * Pow2Mod200(52 - E)) % 200) + x[2]) % (200 * Pow2(7 + E)))

RoundDouble(x) == IF x = <<0, 0>> THEN x ELSE RoundInBinade(x, Exponent(x))

\* pct / 100.0, n * x, x + y, x > y and math.ceil(x) on doubles.
DoubleDiv100(pct) == RoundDouble(<<pct, 0>>)

DoubleMulInt(n, x) == RoundDouble(<<n * x[1], n * x[2]>>)

DoubleAdd(x, y) == RoundDouble(<<x[1] + y[1], x[2] + y[2]>>)

DoubleGt(x, y) == x[1] > y[1] \/ (x[1] = y[1] /\ x[2] > y[2])

DoubleCeil(x) ==
    IF x[1] % 100 = 0
    THEN (IF x[2] > 0 THEN (x[1] \div 100) + 1 ELSE x[1] \div 100)
    ELSE (x[1] \div 100) + 1

\* exercise.planning_projects and planning_project.planning_roles, in the
\* order of their ids.
exercise_planning_projects(exercise_id) ==
    SortedIds({p \in DOMAIN planning_projects : planning_projects[p].exercise_id = exercise_id})

project_planning_roles(planning_project_id) ==
    SortedIds({r \in DOMAIN planning_roles : planning_roles[r].planning_project_id = planning_project_id})

\* PlanningProject.calculated_end_date: the start date plus duration_months.
project_calculated_end_date(planning_project_id) ==
    AddMonths(planning_projects[planning_project_id].start_date,
              planning_projects[planning_project_id].duration_months)

\* PlanningRole.calculated_start_date and calculated_end_date: the project's
\* start date plus the month offsets, the project's end without an end offset.
calculated_start_date(planning_role_id) ==
    AddMonths(planning_projects[planning_roles[planning_role_id].planning_project_id].start_date,
              planning_roles[planning_role_id].start_month_offset)

calculated_end_date(planning_role_id) ==
    IF planning_roles[planning_role_id].end_month_offset # None
    THEN AddMonths(planning_projects[planning_roles[planning_role_id].planning_project_id].start_date,
                   planning_roles[planning_role_id].end_month_offset)
    ELSE project_calculated_end_date(planning_roles[planning_role_id].planning_project_id)

\* The planning roles of an exercise in the order the two nested loops of
\* generate_coverage_analysis visit them.
RECURSIVE RolesOfProjects(_)
RolesOfProjects(pps) ==
    IF pps = << >> THEN << >>
    ELSE project_planning_roles(Head(pps)) \o RolesOfProjects(Tail(pps))

exercise_planning_roles(exercise_id) == RolesOfProjects(exercise_planning_projects(exercise_id))

\* all_dates, and the months from the month of the earliest date to the
\* month of the latest one.
all_dates(exercise_id) ==
    {planning_projects[p].start_date : p \in {q \in DOMAIN planning_projects :
                                                 planning_projects[q].exercise_id = exercise_id}}
    \cup {project_calculated_end_date(p) : p \in {q \in DOMAIN planning_projects :
                                                     planning_projects[q].exercise_id = exercise_id}}
    \cup {calculated_start_date(exercise_planning_roles(exercise_id)[i]) :
              i \in DOMAIN exercise_planning_roles(exercise_id)}
    \cup {calculated_end_date(exercise_planning_roles(exercise_id)[i]) :
              i \in DOMAIN exercise_planning_roles(exercise_id)}

SetMin(S) == CHOOSE x \in S : \A y \in S : x <= y

coverage_months(exercise_id) ==
    MonthOf(SetMin(all_dates(exercise_id)))..MonthOf(SetMax(all_dates(exercise_id)))

\* if role_start <= month_end and role_end >= month_start
RoleActiveInMonth(planning_role_id, m) ==
    /\ calculated_start_date(planning_role_id) <= MonthEnd(m)
    /\ calculated_end_date(planning_role_id) >= MonthStart(m)

\* monthly_requirements[month] of one role name: the loop adds count to
\* 'count' and count * (allocation_percentage / 100.0) to 'allocation_total'
\* for every planning role of that name that is active in the month.
RECURSIVE monthly_requirement(_, _, _, _)
monthly_requirement(acc, role_name, m, prs) ==
    IF prs = << >> THEN acc
    ELSE IF /\ planning_roles[Head(prs)].role_id \in DOMAIN roles
            /\ roles[planning_roles[Head(prs)].role_id].name = role_name
            /\ RoleActiveInMonth(Head(prs), m)
         THEN monthly_requirement(
                  [count |-> acc.count + planning_roles[Head(prs)].count,
                   allocation_total |->
                       DoubleAdd(acc.allocation_total,
                                 DoubleMulInt(planning_roles[Head(prs)].count,
                                              DoubleDiv100(planning_roles[Head(prs)].allocation_percentage)))],
                  role_name, m, Tail(prs))
         ELSE monthly_requirement(acc, role_name, m, Tail(prs))

monthly_requirements(exercise_id, role_name) ==
    [m \in coverage_months(exercise_id) |->
        monthly_requirement([count |-> 0, allocation_total |-> <<0, 0>>], role_name, m,
                            exercise_planning_roles(exercise_id))]

\* The role ids that key role_coverage: the first role met of every name.
coverage_role_ids(exercise_id) ==
    {planning_roles[r].role_id :
        r \in {q \in DOMAIN planning_roles :
                  /\ planning_roles[q].planning_project_id \in DOMAIN planning_projects
                  /\ planning_projects[planning_roles[q].planning_project_id].exercise_id = exercise_id
                  /\ planning_roles[q].role_id \in DOMAIN roles}}

\* The loop of calculate_minimum_staff_per_role over the months of one role:
\* the first month whose requirement exceeds every earlier one.  In
\* conservative mode the requirement is the integer count, written here as
\* the double of the same value.
RECURSIVE PeakLoop(_, _, _, _)
PeakLoop(peak, reqs, m, overlap_mode) ==
    IF m \notin DOMAIN reqs THEN peak
    ELSE IF DoubleGt(IF overlap_mode = "conservative" THEN <<100 * reqs[m].count, 0>>
                     ELSE reqs[m].allocation_total,
                     peak.peak_allocation)
         THEN PeakLoop([peak_count |-> reqs[m].count, peak_month |-> m,
                        peak_allocation |-> IF overlap_mode = "conservative"
                                            THEN <<100 * reqs[m].count, 0>>
                                            ELSE reqs[m].allocation_total],
                       reqs, m + 1, overlap_mode)
         ELSE PeakLoop(peak, reqs, m + 1, overlap_mode)

role_peak(exercise_id, role_id, overlap_mode) ==
    PeakLoop([peak_count |-> 0, peak_month |-> None, peak_allocation |-> <<0, 0>>],
             monthly_requirements(exercise_id, roles[role_id].name),
             SetMin(coverage_months(exercise_id)), overlap_mode)

\* len(suggestions) of suggest_staff_for_role(role_id, peak month, 100.0,
\* max_suggestions = 5); no suggestions are asked for without a peak month.
available_staff_count(role_id, peak_month, today) ==
    IF peak_month = None THEN 0
    ELSE Min(Cardinality(DOMAIN Suggestions(role_id, MonthStart(peak_month), MonthEnd(peak_month),
                                            100, today)), 5)

min_staff_needed(peak, overlap_mode) ==
    IF overlap_mode = "conservative" THEN peak.peak_count ELSE DoubleCeil(peak.peak_allocation)

StaffRequirement(role_id, peak, minimum, available) ==
    [role_id |-> role_id, role_name |-> roles[role_id].name,
     minimum_staff_needed |-> minimum,
     peak_month |-> peak.peak_month, peak_count |-> peak.peak_count,
     peak_allocation |-> peak.peak_allocation,
     available_staff_count |-> available,
     new_hires_needed |-> Max(0, minimum - available)]

RequirementOfPeak(role_id, peak, overlap_mode, today) ==
    StaffRequirement(role_id, peak, min_staff_needed(peak, overlap_mode),
                     available_staff_count(role_id, peak.peak_month, today))

\* minimum_staff before the sort, by role (role_coverage is sorted by role
\* name; the roles are named in the order of their ids).
minimum_staff(exercise_id, overlap_mode, today) ==
    [r \in coverage_role_ids(exercise_id) |->
        RequirementOfPeak(r, role_peak(exercise_id, r, overlap_mode), overlap_mode, today)]

\* minimum_staff.sort(key = new_hires_needed, reverse = True), a stable sort.
SortByNewHires(req) ==
    [k \in 1..Cardinality(DOMAIN req) |->
        req[CHOOSE r \in DOMAIN req :
                Cardinality({t \in DOMAIN req :
                                \/ req[t].new_hires_needed > req[r].new_hires_needed
                                \/ (req[t].new_hires_needed = req[r].new_hires_needed /\ t < r)}) = k - 1]]

calculate_minimum_staff_per_role(exercise_id, overlap_mode, today) ==
    IF exercise_id \notin DOMAIN planning_exercises THEN [status |-> "ValueError"]
    ELSE IF exercise_planning_projects(exercise_id) = << >> THEN [status |-> "error"]
    ELSE [status |-> "ok", overlap_mode |-> overlap_mode,
          staff_requirements |-> SortByNewHires(minimum_staff(exercise_id, overlap_mode, today))]

\* GET /planning-exercises/<id>/staff-requirements
CalculateMinimumStaffPerRole(exercise_id, overlap_mode, today) ==
    /\ lastCall' = [op |-> "calculate_minimum_staff_per_role", exercise_id |-> exercise_id,
                    overlap_mode |-> overlap_mode, today |-> today,
                    result |-> calculate_minimum_staff_per_role(exercise_id, overlap_mode, today)]
    /\ UNCHANGED <<roles, staff, projects, role_rates, assignments, monthly_allocations, templates,
                   planning_exercises, planning_projects, planning_roles, ghost_staff>>

(***************************************************************************)
(* engine.apply_planning_exercise                                          *)
(***************************************************************************)

\* One entry of ghost_staff_for_project / ghost_staff_preview.
GhostEntry(planning_role_id, i) ==
    [name |-> <<roles[planning_roles[planning_role_id].role_id].name, "Placeholder", i + 1>>,
     role_name |-> roles[planning_roles[planning_role_id].role_id].name,
     start_date |-> calculated_start_date(planning_role_id),
     end_date |-> calculated_end_date(planning_role_id)]

\* Preview mode: the entries of one planning project, for i in
\* range(planning_role.count) of every planning role whose role exists.
RECURSIVE ghost_staff_preview(_)
ghost_staff_preview(prs) ==
    IF prs = << >> THEN << >>
    ELSE IF planning_roles[Head(prs)].role_id \notin DOMAIN roles THEN ghost_staff_preview(Tail(prs))
    ELSE [i \in 1..Max(planning_roles[Head(prs)].count, 0) |-> GhostEntry(Head(prs), i - 1)]
         \o ghost_staff_preview(Tail(prs))

\* Create mode: the GhostStaff rows of one planning role, numbered from the
\* next free id, with billable_rate = default_billable_rate or hourly_cost
\* and hours_per_week * (allocation_percentage / 100.0) hours.
PlanningGhosts(project_id, planning_role_id, first_id) ==
    [g \in first_id..(first_id + planning_roles[planning_role_id].count - 1) |->
        [project_id |-> project_id, role_id |-> planning_roles[planning_role_id].role_id,
         name |-> <<roles[planning_roles[planning_role_id].role_id].name, "Placeholder", g - first_id + 1>>,
         internal_hourly_cost |-> roles[planning_roles[planning_role_id].role_id].hourly_cost,
         billable_rate |-> IF roles[planning_roles[planning_role_id].role_id].default_billable_rate
                                  \notin {None, 0}
                           THEN roles[planning_roles[planning_role_id].role_id].default_billable_rate
                           ELSE roles[planning_roles[planning_role_id].role_id].hourly_cost,
         start_date |-> calculated_start_date(planning_role_id),
         end_date |-> calculated_end_date(planning_role_id),
         hours_per_week |-> DoubleMulInt(planning_roles[planning_role_id].hours_per_week,
                                         DoubleDiv100(planning_roles[planning_role_id].allocation_percentage)),
         replaced_by_staff_id |-> None]]

\* The second loop over planning_project.planning_roles in create mode: the
\* ghosts added to the session and the entries reported for them.
RECURSIVE CreateGhosts(_, _, _)
CreateGhosts(acc, project_id, prs) ==
    IF prs = << >> THEN acc
    ELSE IF planning_roles[Head(prs)].role_id \notin DOMAIN roles
         THEN CreateGhosts(acc, project_id, Tail(prs))
         ELSE CreateGhosts(
                  [ghost_staff |-> acc.ghost_staff
                                     @@ PlanningGhosts(project_id, Head(prs), NextId(DOMAIN acc.ghost_staff)),
                   ghost_staff_for_project |->
                       acc.ghost_staff_for_project
                       \o [i \in 1..Max(planning_roles[Head(prs)].count, 0) |-> GhostEntry(Head(prs), i - 1)]],
                  project_id, Tail(prs))

\* The first loop: a ProjectRoleRate for every planning role whose role has
\* a default billable rate.  Two of them for the same role break
\* unique_project_role_rate when the session is flushed.
RatedRoles(prs) ==
    {i \in DOMAIN prs : /\ planning_roles[prs[i]].role_id \in DOMAIN roles
                        /\ roles[planning_roles[prs[i]].role_id].default_billable_rate \notin {None, 0}}

RatesClash(prs) ==
    \E i, j \in RatedRoles(prs) : i # j /\ planning_roles[prs[i]].role_id = planning_roles[prs[j]].role_id

PlanningRates(project_id, prs) ==
    [k \in {<<project_id, planning_roles[prs[i]].role_id>> : i \in RatedRoles(prs)} |->
        roles[k[2]].default_billable_rate]

\* One round of the loop over exercise.planning_projects in create mode.
AfterProject(acc, pp, id, created) ==
    [projects |-> acc.projects @@
                    (id :> [name |-> planning_projects[pp].name, parent_project_id |-> None,
                            is_folder |-> FALSE,
                            start_date |-> planning_projects[pp].start_date,
                            end_date |-> project_calculated_end_date(pp)]),
     role_rates |-> acc.role_rates @@ PlanningRates(id, project_planning_roles(pp)),
     ghost_staff |-> created.ghost_staff,
     failed |-> acc.failed \/ RatesClash(project_planning_roles(pp)),
     created_projects |-> Append(acc.created_projects,
                                 [project_id |-> id, name |-> planning_projects[pp].name,
                                  start_date |-> planning_projects[pp].start_date,
                                  end_date |-> project_calculated_end_date(pp),
                                  ghost_staff_count |-> Len(created.ghost_staff_for_project),
                                  ghost_staff |-> created.ghost_staff_for_project]),
     created_ghost_staff |-> acc.created_ghost_staff \o created.ghost_staff_for_project]

RECURSIVE CreateProjects(_, _)
CreateProjects(acc, pps) ==
    IF pps = << >> THEN acc
    ELSE CreateProjects(
             AfterProject(acc, Head(pps), NextId(DOMAIN acc.projects),
                          CreateGhosts([ghost_staff |-> acc.ghost_staff, ghost_staff_for_project |-> << >>],
                                       NextId(DOMAIN acc.projects), project_planning_roles(Head(pps)))),
             Tail(pps))

\* One round of the loop in preview mode.
PreviewProject(acc, pp, preview) ==
    [created_projects |-> Append(acc.created_projects,
                                 [name |-> planning_projects[pp].name,
                                  start_date |-> planning_projects[pp].start_date,
                                  end_date |-> project_calculated_end_date(pp),
                                  ghost_staff_count |-> Len(preview),
                                  ghost_staff |-> preview]),
     created_ghost_staff |-> acc.created_ghost_staff \o preview]

RECURSIVE PreviewProjects(_, _)
PreviewProjects(acc, pps) ==
    IF pps = << >> THEN acc
    ELSE PreviewProjects(PreviewProject(acc, Head(pps), ghost_staff_preview(project_planning_roles(Head(pps)))),
                         Tail(pps))

\* The dictionary apply_planning_exercise returns.
ApplyReport(mode, done) ==
    [status |-> "ok", mode |-> mode,
     projects_created |-> Len(done.created_projects),
     ghost_staff_created |-> Len(done.created_ghost_staff),
     projects |-> done.created_projects]

\* The result of apply_planning_exercise and the rows it leaves stored.  In
\* create mode the rows are committed with the exercise's new status; rows
\* that break unique_project_role_rate make the flush raise IntegrityError
\* and nothing is committed.
ApplyCreated(exercise_id, done) ==
    IF done.failed
    THEN [result |-> [status |-> "IntegrityError"], projects |-> projects, role_rates |-> role_rates,
          ghost_staff |-> ghost_staff, exercise_status |-> planning_exercises[exercise_id].status]
    ELSE [result |-> ApplyReport("created", done), projects |-> done.projects,
          role_rates |-> done.role_rates, ghost_staff |-> done.ghost_staff,
          exercise_status |-> "completed"]

ApplyPreviewed(exercise_id, done) ==
    [result |-> ApplyReport("preview", done), projects |-> projects, role_rates |-> role_rates,
     ghost_staff |-> ghost_staff, exercise_status |-> planning_exercises[exercise_id].status]

apply_planning_exercise(exercise_id, create_real_projects) ==
    IF exercise_id \notin DOMAIN planning_exercises \/ exercise_planning_projects(exercise_id) = << >>
    THEN [result |-> [status |-> "ValueError"], projects |-> projects, role_rates |-> role_rates,
          ghost_staff |-> ghost_staff,
          exercise_status |-> IF exercise_id \in DOMAIN planning_exercises
                              THEN planning_exercises[exercise_id].status ELSE None]
    ELSE IF create_real_projects
    THEN ApplyCreated(exercise_id,
                      CreateProjects([projects |-> projects, role_rates |-> role_rates,
                                      ghost_staff |-> ghost_staff, failed |-> FALSE,
                                      created_projects |-> << >>, created_ghost_staff |-> << >>],
                                     exercise_planning_projects(exercise_id)))
    ELSE ApplyPreviewed(exercise_id,
                        PreviewProjects([created_projects |-> << >>, created_ghost_staff |-> << >>],
                                        exercise_planning_projects(exercise_id)))

\* POST /planning-exercises/<id>/apply
Applied(exercise_id, create_real_projects, applied) ==
    /\ Cardinality(DOMAIN applied.projects) <= MaxProjects
    /\ projects' = applied.projects
    /\ role_rates' = applied.role_rates
    /\ ghost_staff' = applied.ghost_staff
    /\ planning_exercises' =
           IF exercise_id \in DOMAIN planning_exercises
           THEN [planning_exercises EXCEPT ![exercise_id].status = applied.exercise_status]
           ELSE planning_exercises
    /\ lastCall' = IF create_real_projects
                   THEN [op |-> "apply_planning_exercise", create_real_projects |-> TRUE,
                         status |-> applied.result.status]
                   ELSE [op |-> "apply_planning_exercise", create_real_projects |-> FALSE,
                         exercise_id |-> exercise_id, result |-> applied.result]
    /\ UNCHANGED <<roles, staff, assignments, monthly_allocations, templates,
                   planning_projects, planning_roles>>

ApplyPlanningExercise(exercise_id, create_real_projects) ==
    Applied(exercise_id, create_real_projects, apply_planning_exercise(exercise_id, create_real_projects))

(***************************************************************************)
(* routes: planning projects and planning roles                            *)
(***************************************************************************)

OVERLAP_MODES == {"efficient", "conservative"}

\* The checks of one entry of 'roles', in the order the routes make them.
planning_role_status(data) ==
    IF data.role_id = None \/ data.count = None THEN "ValidationError"
    ELSE IF data.role_id \notin DOMAIN roles THEN "NotFoundError"
    ELSE IF data.overlap_mode \notin OVERLAP_MODES THEN "ValidationError"
    ELSE "ok"

NewPlanningRole(planning_project_id, data) ==
    [planning_project_id |-> planning_project_id, role_id |-> data.role_id, count |-> data.count,
     start_month_offset |-> data.start_month_offset, end_month_offset |-> data.end_month_offset,
     allocation_percentage |-> data.allocation_percentage, hours_per_week |-> data.hours_per_week,
     overlap_mode |-> data.overlap_mode]

\* The loop over data['roles'] of create_planning_project: the roles are
\* added to the session one by one and committed after the loop, so the
\* first entry that fails leaves none of them stored.
RECURSIVE RolesLoop(_, _, _)
RolesLoop(acc, planning_project_id, entries) ==
    IF entries = << >> \/ acc.status # "ok" THEN acc
    ELSE IF planning_role_status(Head(entries)) # "ok"
         THEN [status |-> planning_role_status(Head(entries)), planning_roles |-> planning_roles]
         ELSE RolesLoop([status |-> "ok",
                         planning_roles |-> acc.planning_roles @@
                             (NextId(DOMAIN acc.planning_roles) :>
                                  NewPlanningRole(planning_project_id, Head(entries)))],
                        planning_project_id, Tail(entries))

\* POST /planning-exercises/<exercise_id>/projects.  The project is
\* committed before its roles are looked at.
ProjectCreated(exercise_id, data, id, looped) ==
    /\ id <= MaxPlanningProjects
    /\ Cardinality(DOMAIN looped.planning_roles) <= MaxPlanningRoles
    /\ planning_projects' = planning_projects @@
           (id :> [exercise_id |-> exercise_id, name |-> data.name, start_date |-> data.start_date,
                   duration_months |-> data.duration_months])
    /\ planning_roles' = looped.planning_roles
    /\ lastCall' = [op |-> "create_planning_project", status |-> looped.status]

create_planning_project(exercise_id, data) ==
    /\ UNCHANGED <<roles, staff, projects, role_rates, assignments, monthly_allocations, templates,
                   planning_exercises, ghost_staff>>
    /\ IF exercise_id \notin DOMAIN planning_exercises
       THEN /\ UNCHANGED <<planning_projects, planning_roles>>
            /\ lastCall' = [op |-> "create_planning_project", status |-> "NotFoundError"]
       ELSE IF data.start_date = None \/ data.duration_months = None
       THEN /\ UNCHANGED <<planning_projects, planning_roles>>
            /\ lastCall' = [op |-> "create_planning_project", status |-> "ValidationError"]
       ELSE ProjectCreated(exercise_id, data, NextId(DOMAIN planning_projects),
                           RolesLoop([status |-> "ok", planning_roles |-> planning_roles],
                                     NextId(DOMAIN planning_projects), data.roles))

\* POST /planning-projects/<project_id>/roles
create_planning_role(project_id, data) ==
    /\ UNCHANGED <<roles, staff, projects, role_rates, assignments, monthly_allocations, templates,
                   planning_exercises, planning_projects, ghost_staff>>
    /\ IF project_id \notin DOMAIN planning_projects
       THEN /\ UNCHANGED planning_roles
            /\ lastCall' = [op |-> "create_planning_role", status |-> "NotFoundError"]
       ELSE IF planning_role_status(data) # "ok"
       THEN /\ UNCHANGED planning_roles
            /\ lastCall' = [op |-> "create_planning_role", status |-> planning_role_status(data)]
       ELSE /\ NextId(DOMAIN planning_roles) <= MaxPlanningRoles
            /\ planning_roles' = planning_roles @@
                   (NextId(DOMAIN planning_roles) :> NewPlanningRole(project_id, data))
            /\ lastCall' = [op |-> "create_planning_role", status |-> "ok"]

\* DELETE /planning-roles/<role_id>
delete_planning_role(role_id) ==
    /\ UNCHANGED <<roles, staff, projects, role_rates, assignments, monthly_allocations, templates,
                   planning_exercises, planning_projects, ghost_staff>>
    /\ IF role_id \notin DOMAIN planning_roles
       THEN /\ UNCHANGED planning_roles
            /\ lastCall' = [op |-> "delete_planning_role", status |-> "NotFoundError"]
       ELSE /\ planning_roles' = [r \in DOMAIN planning_roles \ {role_id} |-> planning_roles[r]]
            /\ lastCall' = [op |-> "delete_planning_role", status |-> "ok"]

(***************************************************************************)
(* SpecPlan: one planning exercise that receives projects and roles, is    *)
(* analysed and is applied.                                                *)
(***************************************************************************)
PlanInit ==
    /\ roles = (1 :> [name |-> "R1", hourly_cost |-> 50, default_billable_rate |-> 100, is_active |-> TRUE])
               @@ (2 :> [name |-> "R2", hourly_cost |-> 60, default_billable_rate |-> None, is_active |-> TRUE])
    /\ staff = [s \in 1..2 |->
                   [name |-> "S", role_id |-> 1, internal_hourly_cost |-> 50,
                    availability_start |-> None, availability_end |-> None, skills |-> {}]]
    /\ projects = << >>
    /\ role_rates = << >>
    /\ assignments = << >>
    /\ monthly_allocations = << >>
    /\ templates = << >>
    /\ planning_exercises = (1 :> [name |-> "E1", status |-> "draft"])
    /\ planning_projects = << >>
    /\ planning_roles = << >>
    /\ ghost_staff = << >>
    /\ lastCall = [op |-> "none"]

PlanningRoleRequest(role_id, count, allocation_percentage, start_month_offset, end_month_offset, overlap_mode) ==
    [role_id |-> role_id, count |-> count, allocation_percentage |-> allocation_percentage,
     start_month_offset |-> start_month_offset, end_month_offset |-> end_month_offset,
     hours_per_week |-> 40, overlap_mode |-> overlap_mode]

\* One engineer at 60 percent, three at 80 percent, two in full for the
\* first month, one of the second role from the second month on; a role
\* that does not exist, a missing count and an unknown overlap mode.
PlanningRoleRequests ==
    {PlanningRoleRequest(1, 1, 60, 0, None, "efficient"),
     PlanningRoleRequest(1, 3, 80, 0, None, "efficient"),
     PlanningRoleRequest(1, 2, 100, 0, 1, "conservative"),
     PlanningRoleRequest(2, 1, 50, 1, None, "efficient"),
     PlanningRoleRequest(3, 1, 100, 0, None, "efficient"),
     PlanningRoleRequest(1, None, 100, 0, None, "efficient"),
     PlanningRoleRequest(1, 1, 100, 0, None, "shared")}

PlanningProjectRequests ==
    {[name |-> "PP", start_date |-> d, duration_months |-> 2, roles |-> rs] :
        d \in {0, 31, None},
        rs \in {<< >>,
                <<PlanningRoleRequest(1, 1, 60, 0, None, "efficient")>>,
                <<PlanningRoleRequest(1, 1, 60, 0, None, "efficient"),
                  PlanningRoleRequest(3, 1, 100, 0, None, "efficient")>>}}

\* Nothing follows a query, and an exercise is applied or previewed once, at
\* the end of a run.
PlanIdle == NoQueryYet /\ lastCall.op # "apply_planning_exercise"

PlanCreateProject ==
    PlanIdle /\ \E exercise_id \in {1, 2}, data \in PlanningProjectRequests :
                    create_planning_project(exercise_id, data)

PlanCreateRole ==
    PlanIdle /\ \E project_id \in 1..(MaxPlanningProjects + 1), data \in PlanningRoleRequests :
                    create_planning_role(project_id, data)

PlanDeleteRole ==
    PlanIdle /\ \E role_id \in 1..(MaxPlanningRoles + 1) : delete_planning_role(role_id)

PlanMinimumStaff ==
    PlanIdle /\ \E exercise_id \in {1, 2}, overlap_mode \in OVERLAP_MODES :
                    CalculateMinimumStaffPerRole(exercise_id, overlap_mode, 59)

PlanApply ==
    PlanIdle /\ \E exercise_id \in {1, 2}, create_real_projects \in BOOLEAN :
                    ApplyPlanningExercise(exercise_id, create_real_projects)

PlanNext == PlanCreateProject \/ PlanCreateRole \/ PlanDeleteRole \/ PlanMinimumStaff \/ PlanApply

SpecPlan == PlanInit /\ [][PlanNext]_vars

\* The planning roles of one role in an exercise that are active in a month,
\* and the sums of their counts and of count * percentage over them.
ActivePlanningRoles(exercise_id, role_id, m) ==
    {r \in DOMAIN planning_roles :
        /\ planning_projects[planning_roles[r].planning_project_id].exercise_id = exercise_id
        /\ planning_roles[r].role_id = role_id
        /\ RoleActiveInMonth(r, m)}

RECURSIVE CountSum(_)
CountSum(S) ==
    IF S = {} THEN 0
    ELSE LET r == CHOOSE x \in S : TRUE IN planning_roles[r].count + CountSum(S \ {r})

RECURSIVE HundredthsSum(_)
HundredthsSum(S) ==
    IF S = {} THEN 0
    ELSE LET r == CHOOSE x \in S : TRUE
         IN  planning_roles[r].count * planning_roles[r].allocation_percentage + HundredthsSum(S \ {r})

LargestCount(exercise_id, role_id) ==
    SetMax({CountSum(ActivePlanningRoles(exercise_id, role_id, m)) : m \in coverage_months(exercise_id)})

LargestHundredths(exercise_id, role_id) ==
    SetMax({HundredthsSum(ActivePlanningRoles(exercise_id, role_id, m)) : m \in coverage_months(exercise_id)})

\* C24: every entry of calculate_minimum_staff_per_role's result holds, in
\* conservative mode, the largest monthly sum of the counts of the role's
\* planning roles and, in efficient mode, the ceiling of the largest monthly
\* sum of count * allocation_percentage / 100; new_hires_needed is
\* max(0, minimum_staff_needed - available_staff_count); and the efficient
\* figure is not above the conservative one.
C24_MinimumStaff ==
    (lastCall.op = "calculate_minimum_staff_per_role" /\ lastCall.result.status = "ok") =>
        \A k \in DOMAIN lastCall.result.staff_requirements :
            LET entry == lastCall.result.staff_requirements[k]
            IN  /\ entry.minimum_staff_needed =
                       IF lastCall.overlap_mode = "conservative"
                       THEN LargestCount(lastCall.exercise_id, entry.role_id)
                       ELSE (LargestHundredths(lastCall.exercise_id, entry.role_id) + 99) \div 100
                /\ entry.new_hires_needed = Max(0, entry.minimum_staff_needed - entry.available_staff_count)
                /\ lastCall.overlap_mode = "efficient" =>
                       entry.minimum_staff_needed <= LargestCount(lastCall.exercise_id, entry.role_id)

\* The ghost entries a report is to hold for one planning project: as many
\* as the counts of its planning roles add up to and, for every planning
\* role and every k up to its count, one named '<role name> Placeholder k'
\* with the role's dates.
OnePerHeadcountUnit(entries, planning_project_id) ==
    /\ Len(entries) = CountSum({r \in DOMAIN planning_roles :
                                   planning_roles[r].planning_project_id = planning_project_id})
    /\ \A r \in DOMAIN planning_roles :
           planning_roles[r].planning_project_id = planning_project_id =>
               \A k \in 1..planning_roles[r].count :
                   \E j \in DOMAIN entries :
                       entries[j] = [name |-> <<roles[planning_roles[r].role_id].name, "Placeholder", k>>,
                                     role_name |-> roles[planning_roles[r].role_id].name,
                                     start_date |-> calculated_start_date(r),
                                     end_date |-> calculated_end_date(r)]

ReportIsComplete(report, pps) ==
    /\ report.status = "ok"
    /\ report.projects_created = Len(pps)
    /\ \A i \in DOMAIN pps : OnePerHeadcountUnit(report.projects[i].ghost_staff, pps[i])

\* A preview's report against the report of create mode for the same
\* exercise.
PreviewAgrees(preview) ==
    LET created == apply_planning_exercise(preview.exercise_id, TRUE).result
    IN  /\ ReportIsComplete(preview.result, exercise_planning_projects(preview.exercise_id))
        /\ ReportIsComplete(created, exercise_planning_projects(preview.exercise_id))
        /\ created.projects_created = preview.result.projects_created
        /\ \A i \in DOMAIN created.projects :
               created.projects[i].ghost_staff = preview.result.projects[i].ghost_staff

\* C25: a preview (create_real_projects = false) writes nothing and leaves
\* the exercise's status as it was, and its report holds the same number of
\* projects and the same ghost-staff entries as create mode reports for the
\* same exercise, in both modes one entry per required headcount unit of
\* every planning role, named '<role name> Placeholder k' for k = 1..count.
C25_PreviewEqualsCreate ==
    [][(/\ lastCall'.op = "apply_planning_exercise"
        /\ ~lastCall'.create_real_projects
        /\ lastCall'.result.status = "ok")
       => (/\ UNCHANGED <<roles, staff, projects, role_rates, assignments, monthly_allocations,
                          templates, planning_exercises, planning_projects, planning_roles, ghost_staff>>
           /\ PreviewAgrees(lastCall'))]_vars

\* The hours assigned on a project in the week that starts on w.
AssignedHours(project_id, w) ==
    RSum([a \in ProjectAssignments(project_id) |-> calculate_assignment_hours_in_period(a, w, w + 6, TRUE)])

\* C26: detect_staffing_gaps(project, start, end) holds one project_gap
\* entry for every week of the forecast period in which the project has no
\* assigned hours, and none for a week that has assigned hours.
C26_GapPerEmptyWeek ==
    (/\ lastCall.op = "detect_staffing_gaps"
     /\ lastCall.project_id \in DOMAIN projects
     /\ lastCall.start_date # None /\ lastCall.end_date # None) =>
        \A w \in WeekStarts(lastCall.start_date, lastCall.end_date) :
            (AssignedHours(lastCall.project_id, w) = R(0))
                <=> ([type |-> "project_gap", project_id |-> lastCall.project_id, week |-> w]
                        \in lastCall.result)

\* C27: in the result of calculate_project_staffing_needs the per-staff
\* values of staff_breakdown[week] add up to weekly_staffing[week] for every
\* week key, also when a staff member has several assignments in the week.
C27_BreakdownSumsToWeek ==
    (lastCall.op = "calculate_project_staffing_needs" /\ lastCall.result.status = "ok") =>
        /\ DOMAIN lastCall.result.staff_breakdown = DOMAIN lastCall.result.weekly_staffing
        /\ \A w \in DOMAIN lastCall.result.weekly_staffing :
               RSum(lastCall.result.staff_breakdown[w]) = lastCall.result.weekly_staffing[w]

\* C28: calculate_project_cost returns a complete result for every existing
\* project, whatever the source of its assignments' billable rates
\* (project_role_rate, inherited_project_role_rate,
\* role_default_billable_rate or none), and the counts in rate_sources add
\* up to assignments_count.
C28_CostForEverySource ==
    (lastCall.op = "calculate_project_cost" /\ lastCall.project_id \in DOMAIN projects) =>
        /\ lastCall.result.status = "ok"
        /\ RSum([k \in DOMAIN lastCall.result.rate_sources |-> R(lastCall.result.rate_sources[k])])
               = R(lastCall.result.assignments_count)

\* What the claim compares of a validation: the conflicts and is_valid.
Verdict(validation) == [is_valid |-> validation.is_valid, conflicts |-> validation.conflicts]

\* C29: excluding an assignment is as good as its absence: when assignment X
\* is deleted, validate_assignment_allocation(staff, start, end, pct,
\* exclude_assignment_id = X) on the table before the deletion gives the
\* conflicts and is_valid that the same call without exclusion gives on the
\* table after it, whatever the allocation types of the other assignments.
C29_ExclusionIsAbsence ==
    [][(lastCall'.op = "delete_assignment" /\ lastCall'.status = "ok") =>
          \A deleted \in {assignments'} :
              \A x \in DOMAIN assignments \ DOMAIN deleted :
                  \A w \in AllocWindows, pct \in {R(50), R(100)} :
                      Verdict(validate_assignment_allocation(assignments, assignments[x].staff_id,
                                                             w[1], w[2], pct, x))
                          = Verdict(validate_assignment_allocation(deleted, assignments[x].staff_id,
                                                                   w[1], w[2], pct, None))]_vars

(***************************************************************************)
(* Advice specification: a client that asks the allocation validator and   *)
(* the over-allocation detector around the assignment writes of two staff  *)
(* members, with percentages that add up to 100 or less.                   *)
(***************************************************************************)
\* percentage_total at 25 percent
KindQuarter ==
    [present |-> {"allocation_type", "allocation_percentage"},
     allocation_type |-> ALLOCATION_PERCENTAGE_TOTAL,
     allocation_percentage |-> R(25), monthly_allocations |-> <<>>]

AdviceRequests ==
    {AssignmentRequest(1, r, k) : r \in AllocDateRanges, k \in {KindFull, KindSplit, KindQuarter, KindHalf}}
    \cup {AssignmentRequest(2, <<0, 59>>, KindHalf)}

AdviceCreate == NoQueryYet /\ \E data \in AdviceRequests : create_assignment(data)

AdviceDelete == NoQueryYet /\ \E id \in DOMAIN assignments : delete_assignment(id)

AdviceValidate ==
    /\ NoQueryYet
    /\ \E s \in 1..MaxStaff, w \in AllocDateRanges, pct \in {R(25), R(50)} :
          ValidateAllocation(s, w[1], w[2], pct, None)

AdviceDetect ==
    NoQueryYet /\ \E s \in 1..MaxStaff, w \in AllocDateRanges : AllocationConflicts(s, w[1], w[2])

AdviceNext ==
    \/ AdviceCreate
    \/ AdviceDelete
    \/ AdviceValidate
    \/ AdviceDetect

SpecAdvice == AllocInit /\ [][AdviceNext]_vars

\* No month of 2024, the year of every assignment, is over-allocated for the staff member.
NoOverAllocatedMonth(table, staff_id) ==
    ~detect_over_allocations(table, staff_id, MonthStart(1), MonthEnd(12)).has_conflicts

\* The new assignment is of type percentage_total and, on the table before it
\* was created, no month of its staff member was over-allocated and the
\* validator accepted its percentage over its date range.
AdvisedCreation(before, new) ==
    /\ new.allocation_type = ALLOCATION_PERCENTAGE_TOTAL
    /\ NoOverAllocatedMonth(before, new.staff_id)
    /\ validate_assignment_allocation(before, new.staff_id, new.start_date, new.end_date,
                                      new.allocation_percentage, None).is_valid

\* C30: the validator and the detector agree across a write: when a staff
\* member has no over-allocated month, validate_assignment_allocation(staff,
\* start, end, p) answers is_valid = true and a percentage_total assignment of
\* p over [start, end] is created for the staff member, then
\* detect_over_allocations over [start, end] reports has_conflicts = false.
C30_ValidatorAgreesWithDetector ==
    [][(lastCall'.op = "create_assignment" /\ lastCall'.status = "ok") =>
          \A created \in {assignments'} :
              \A x \in DOMAIN created \ DOMAIN assignments :
                  AdvisedCreation(assignments, created[x]) =>
                      ~detect_over_allocations(created, created[x].staff_id, created[x].start_date,
                                               created[x].end_date).has_conflicts]_vars

\* A percentage_total assignment was created on the validator's advice for a
\* staff member who already had an assignment in the same months.
C30_Witness ==
    /\ lastCall = [op |-> "create_assignment", status |-> "ok"]
    /\ DOMAIN assignments = {1, 2}
    /\ assignments[1].staff_id = assignments[2].staff_id
    /\ assignments[1].start_date <= assignments[2].end_date
    /\ assignments[1].end_date >= assignments[2].start_date
    /\ AdvisedCreation([a \in {1} |-> assignments[a]], assignments[2])
    /\ ~detect_over_allocations(assignments, assignments[2].staff_id, assignments[2].start_date,
                                assignments[2].end_date).has_conflicts

====
